---- MODULE Spec2Model ----
(***************************************************************************)
(* A model of the WhatsApp support agent's message-processing pipeline:    *)
(* MessageProcessor.processIncomingMessage and the collaborators it calls  *)
(* (IntentHandler, TicketMessageHandler, SessionService, the Prisma        *)
(* tables User / Conversation / Message).                                  *)
(*                                                                         *)
(* Every await of processIncomingMessage whose callee reads or writes      *)
(* shared state (database, session store, outbound channel) is a step of   *)
(* its own, so that calls interleave where the Node.js event loop lets     *)
(* them interleave.  Step 5 (the handler dispatch) works on the call's own *)
(* user / session objects; it is one step.                                 *)
(*                                                                         *)
(* Time is in milliseconds (Date.now()); confidences are in hundredths.    *)
(***************************************************************************)
EXTENDS Integers, Sequences, FiniteSets, TLC

\* ------------------------------------------------------------------ bounds

MaxCalls == 2       \* inbound events handed to processIncomingMessage in a run
MaxOps == 3         \* calls made to a service in a run
LogLength == 2      \* service calls the log keeps
MaxTime == 3        \* clock ticks in a run
TickSeconds == 1800 \* seconds that pass in one clock tick
MaxChanges == 2     \* changes in one webhook delivery
MaxMessages == 2    \* messages in one change
MaxStatuses == 1    \* status updates in one change

\* ------------------------------------------------------- program constants

MsPerSecond == 1000
MaxConversationDuration == 3600
SessionTTL == 3600
ConfidenceThreshold == 50
KnowledgeBaseThreshold == 40
FaqConfidenceThreshold == 50
FallbackConfidence == 60
UnknownConfidence == 10
TicketIntentConfidence == 80
TicketIntentThreshold == 70
MinAIResponseLength == 15
MinAcceptedAILength == 10
HalfWord == 65536
NlpCacheTTL == 1800
SearchCacheTTL == 1800
SearchLimit == 5
SemanticTake == 20
MinQueryWordLength == 2
KeywordRelevance == 30
KeywordShortcut == 80
SimilarityThreshold == 60
FrequentUsage == 10
MinContentLength == 10
SplitTitleLength == 100
TitleWords == 8
GeneratedTitleLength == 50
TicketCacheTTL == 300
AutoCloseDelay == 604800000
DefaultTicketLimit == 10
StatusCheckLimit == 5

DefaultLanguage == "fr"
SupportedLanguages == {"fr", "en"}

\* JavaScript null / undefined
Null == "<null>"
NoTime == -1
NoId == 0

\* messageData.content, by message type (extractMessageContent)
NoContent == [defined |-> TRUE, text |-> Null, buttonId |-> Null, buttonTitle |-> Null,
              listId |-> Null, listTitle |-> Null, caption |-> Null]
NoPayload == [messageType |-> Null, content |-> NoContent]

\* ------------------------------------------------------------------ inputs

Slots == {1, 2}
Phones == {"221770000001", "221770000002"}
ContactNames == {Null, "Awa"}
MessageIds == {"wamid.A", "wamid.B"}

\* messageData without its payload: from, messageId, contact
Envelope(ph, name, id) == [from |-> ph, messageId |-> id, contact |-> [name |-> name, phoneNumber |-> ph]]
Envelopes == {Envelope(ph, name, id) : ph \in Phones, name \in ContactNames, id \in MessageIds}
DialogueEnvelopes == {Envelope("221770000001", name, "wamid.A") : name \in ContactNames}
RaceEnvelopes == {Envelope("221770000001", name, "wamid.A") : name \in ContactNames}

\* ----------------------------------------------------------- string helpers

\* String.prototype.includes
Includes(t, k) == \E i \in 1..(Len(t) - Len(k) + 1) : SubSeq(t, i, i + Len(k) - 1) = k

UpperCaseLetters == <<"A", "B", "C", "D", "E", "F", "G", "H", "I", "J", "K", "L", "M",
                      "N", "O", "P", "Q", "R", "S", "T", "U", "V", "W", "X", "Y", "Z", "É">>
LowerCaseLetters == <<"a", "b", "c", "d", "e", "f", "g", "h", "i", "j", "k", "l", "m",
                      "n", "o", "p", "q", "r", "s", "t", "u", "v", "w", "x", "y", "z", "é">>

LowerChar(c) == IF \E i \in 1..Len(UpperCaseLetters) : UpperCaseLetters[i] = c THEN LowerCaseLetters[CHOOSE i \in 1..Len(UpperCaseLetters) : UpperCaseLetters[i] = c] ELSE c

\* String.prototype.toLowerCase
RECURSIVE ToLowerCase(_)
ToLowerCase(t) == IF t = "" THEN "" ELSE LowerChar(SubSeq(t, 1, 1)) \o ToLowerCase(SubSeq(t, 2, Len(t)))

\* String.prototype.trim (spaces)
RECURSIVE Trim(_)
Trim(t) == IF t = "" THEN "" ELSE IF SubSeq(t, 1, 1) = " " THEN Trim(SubSeq(t, 2, Len(t))) ELSE IF SubSeq(t, Len(t), Len(t)) = " " THEN Trim(SubSeq(t, 1, Len(t) - 1)) ELSE t

\* array.some(keyword => lowerText.includes(keyword.toLowerCase()))
SomeIncluded(lowerText, keywords) == \E i \in 1..Len(keywords) : Includes(lowerText, ToLowerCase(keywords[i]))

\* JavaScript truthiness of a string or null
Truthy(t) == t # Null /\ t # ""

\* ------------------------------------------------ MessageLocalizationService

\* A user-facing string: a catalog entry (key, language) or a verbatim text.
Localized(key, language) == [key |-> key, language |-> language, text |-> Null]
Verbatim(text) == [key |-> "verbatim", language |-> Null, text |-> text]
ListOf(key, language) == [key |-> key, language |-> language, text |-> "tickets"]

\* messages[language]?.[key] || messages[this.defaultLanguage]?.[key] || key
GetLocalizedMessage(key, language) == Localized(key, IF language \in {"fr", "en"} THEN language ELSE DefaultLanguage)

GetErrorMessage(language) == GetLocalizedMessage("error.general", language)
GetFallbackMessage(language) == GetLocalizedMessage("fallback.message", language)
GetFallbackConversationalMessage(language) == Localized("fallback.conversational", IF language = "fr" THEN "fr" ELSE "en")

\* The three response shapes the handlers return.
TextResponse(content) == [type |-> "text", content |-> content, ids |-> << >>]
InteractiveResponse(content, buttonIds) == [type |-> "interactive", content |-> content, ids |-> buttonIds]
ListResponse(content, rowIds) == [type |-> "list", content |-> content, ids |-> rowIds]
NoResponse == [type |-> Null, content |-> Localized(Null, Null), ids |-> << >>]

\* ----------------------------------------------------------------- NLPService

SupportedIntents == {"greeting", "help", "create_ticket", "check_ticket_status", "faq",
                     "contact_agent", "goodbye", "complaint", "compliment",
                     "product_inquiry", "order_status", "refund_request",
                     "technical_support", "billing_inquiry"}

\* What the hosted model may answer to the intent prompt (after JSON.parse):
\* an intent string and a confidence, either of which may be off the contract.
ModelIntents == {"greeting", "help", "create_ticket", "check_ticket_status", "faq",
                 "contact_agent", "goodbye", "complaint", "product_inquiry",
                 "technical_support", "small_talk"}
NotANumber == -1000
ModelAnswers == {<<i, 50>> : i \in ModelIntents} \cup {<<"greeting", 49>>, <<"goodbye", 150>>, <<"faq", -20>>, <<"small_talk", NotANumber>>}

\* A confidence taken as the model gives it.
Unclamped(c) == c

\* Math.max(0, Math.min(1, c))
Clamp01(c) == IF c < 0 THEN 0 ELSE IF c > 100 THEN 100 ELSE c

\* normalizeIntentResult: intent, confidence (the fields the pipeline reads)
NormalizeIntentResult(intent, confidence) == [intent |-> IF intent \in SupportedIntents THEN intent ELSE "unknown", confidence |-> Clamp01(IF confidence = NotANumber THEN 0 ELSE confidence), fallback |-> FALSE, thrown |-> FALSE]

KeywordMap == << <<"greeting", <<"bonjour", "bonsoir", "salut", "hello", "hi", "good morning", "good evening">> >>,
                 <<"help", <<"aide", "aider", "help", "assistance", "support">> >>,
                 <<"create_ticket", <<"problème", "bug", "erreur", "problem", "issue", "error">> >>,
                 <<"contact_agent", <<"agent", "humain", "personne", "human", "person", "representative">> >>,
                 <<"goodbye", <<"au revoir", "bye", "goodbye", "merci", "thank you">> >>,
                 <<"complaint", <<"mécontent", "insatisfait", "nul", "mauvais", "unhappy", "bad", "terrible">> >> >>

\* fallbackIntentAnalysis: the first intent of the keyword map, in order, one of
\* whose keywords the lower-cased text includes
FallbackIntentAnalysis(text) == LET lowerText == ToLowerCase(text)
                                    hits == {i \in 1..Len(KeywordMap) : \E j \in 1..Len(KeywordMap[i][2]) : Includes(lowerText, KeywordMap[i][2][j])}
                                IN IF hits = {} THEN [intent |-> "unknown", confidence |-> UnknownConfidence, fallback |-> TRUE, thrown |-> FALSE]
                                   ELSE [intent |-> KeywordMap[CHOOSE i \in hits : \A j \in hits : i <= j][1], confidence |-> FallbackConfidence, fallback |-> TRUE, thrown |-> FALSE]

\* throw new OpenAIError(..., 503) on insufficient_quota / rate_limit_exceeded
IntentThrown == [intent |-> "unknown", confidence |-> 0, fallback |-> FALSE, thrown |-> TRUE]
NoIntent == [intent |-> Null, confidence |-> 0, fallback |-> FALSE, thrown |-> FALSE]

\* analyzeIntent: every result a call can end with.  A cache hit returns an
\* earlier normalized result for the same key; a model answer is normalized; a
\* failure of the call, of JSON.parse or of the cache write ends in the keyword
\* fallback, except a quota / rate-limit error, which is rethrown.
AnalyzeIntent(text, language) == {NormalizeIntentResult(a[1], a[2]) : a \in ModelAnswers} \cup {FallbackIntentAnalysis(text), IntentThrown}

FrenchWords == <<"bonjour", "merci", "problème", "aide", "comment", "pourquoi", "quand">>
EnglishWords == <<"hello", "thank", "problem", "help", "how", "why", "when">>

CountIncluded(lowerText, words) == Cardinality({i \in 1..Len(words) : Includes(lowerText, words[i])})

\* quickLanguageDetection
QuickLanguageDetection(text) == LET lowerText == ToLowerCase(text)
                                    frenchCount == CountIncluded(lowerText, FrenchWords)
                                    englishCount == CountIncluded(lowerText, EnglishWords)
                                IN IF frenchCount > englishCount /\ frenchCount > 0 THEN "fr"
                                   ELSE IF englishCount > frenchCount /\ englishCount > 0 THEN "en"
                                   ELSE Null

\* What the hosted model may answer to the language prompt (trimmed, lower-cased).
ModelLanguages == {"fr", "en", "es", "unknown"}

\* detectLanguage: every result a call can end with.  The quick detection
\* decides when it can; else the model's answer counts only if it is a
\* language of NLPService.supportedLanguages; any failure gives null.
DetectLanguage(text) == LET quickDetection == QuickLanguageDetection(text)
                        IN IF quickDetection # Null THEN {quickDetection, Null}
                           ELSE {IF l \in {"fr", "en"} THEN l ELSE Null : l \in ModelLanguages}

\* ------------------------------------------------------- KnowledgeBaseService

NoKbResult == [found |-> FALSE, answer |-> Null, confidence |-> 0, semantic |-> FALSE]
KbAnswer == "Nos horaires: 9h-18h."
KbMatches == {<<40, FALSE>>, <<41, FALSE>>, <<41, TRUE>>, <<50, FALSE>>, <<51, FALSE>>}

\* search: every result a call can end with: null (no match, or any failure),
\* or the best match.  `semantic` tells whether the semantic tier ran, which
\* calls analyzeIntent on the query.
KnowledgeBaseSearch(query, language) == {NoKbResult, [NoKbResult EXCEPT !.semantic = TRUE]} \cup {[found |-> TRUE, answer |-> KbAnswer, confidence |-> m[1], semantic |-> m[2]] : m \in KbMatches}


\* --------------------------------------------------------------- CacheService

\* The keys of a Redis instance: key |-> [value, expiresAt].
NoKeys == [key \in {} |-> [value |-> Null, expiresAt |-> NoTime]]

\* A read that finds every key ever set, expired or not.
CacheHasExpired(c, key, t) == key \in DOMAIN c

\* client.get(key) finds a value: the key is set and its TTL still runs.
CacheHas(c, key, t) == key \in DOMAIN c /\ t < c[key].expiresAt

\* client.setEx(key, ttl, JSON.stringify(value))
CacheSet(c, key, value, ttl, t) == [k \in DOMAIN c \cup {key} |-> IF k = key THEN [value |-> value, expiresAt |-> t + ttl * MsPerSecond] ELSE c[k]]

\* client.del(key)
CacheDel(c, key) == [k \in DOMAIN c \ {key} |-> c[k]]

\* hashText: hash = ((hash << 5) - hash) + charCode, cut to 32 bits at every
\* character; then Math.abs.  The 32 bits are kept as two 16-bit halves.
LowerCaseAscii == "abcdefghijklmnopqrstuvwxyz"
UpperCaseAscii == "ABCDEFGHIJKLMNOPQRSTUVWXYZ"
IndexOfChar(alphabet, c) == CHOOSE i \in 1..Len(alphabet) : SubSeq(alphabet, i, i) = c

\* charCodeAt, for the characters of the texts used here
CharCodeAt(c) ==
  CASE Includes(LowerCaseAscii, c) -> 96 + IndexOfChar(LowerCaseAscii, c)
    [] Includes(UpperCaseAscii, c) -> 64 + IndexOfChar(UpperCaseAscii, c)
    [] c = " " -> 32
    [] c = "'" -> 39
    [] c = "," -> 44
    [] c = "-" -> 45
    [] c = ":" -> 58
    [] c = "?" -> 63
    [] c = "è" -> 232
    [] c = "é" -> 233

HashStep(h, code) == LET lo == h.lo * 31 + code
                         hi == h.hi * 31 + lo \div HalfWord
                     IN [hi |-> hi % HalfWord, lo |-> lo % HalfWord]

RECURSIVE HashFrom(_, _)
HashFrom(h, text) == IF text = "" THEN h ELSE HashFrom(HashStep(h, CharCodeAt(SubSeq(text, 1, 1))), SubSeq(text, 2, Len(text)))

\* Math.abs of the 32-bit signed value
AbsInt32(h) == IF h.hi < HalfWord \div 2 THEN h
               ELSE [hi |-> HalfWord - 1 - h.hi + (IF h.lo = 0 THEN 1 ELSE 0), lo |-> (HalfWord - h.lo) % HalfWord]

\* hashText(text), its digits written in base 65536 (the code writes them in
\* base 36)
HashText(text) == LET h == AbsInt32(HashFrom([hi |-> 0, lo |-> 0], text)) IN ToString(h.hi) \o "." \o ToString(h.lo)

\* ------------------------------------------- NLPService.analyzeIntent, cached

\* `nlp:intent:${this.hashText(text)}:${language}`
IntentCacheKey(text, language) == "nlp:intent:" \o HashText(text) \o ":" \o language

\* How the hosted model call of analyzeIntent ends: an answer that parses, a
\* text that JSON.parse rejects, an error, or an error whose code is
\* insufficient_quota or rate_limit_exceeded.
ModelFailures == {"unparseable", "error", "insufficient_quota", "rate_limit_exceeded"}
NoAnswer == <<Null, NotANumber>>

\* The result object with the fields a cached copy is compared on.
Stamped(r, text, language, t) == [intent |-> r.intent, confidence |-> r.confidence, fallback |-> r.fallback, originalText |-> text, language |-> language, timestamp |-> t]

\* One run of analyzeIntent: what it returns or throws, the hosted-model
\* calls it made, whether its cache read hit or failed, whether it wrote the
\* cache, and the cache it leaves.
IntentRun(result, isThrown, answer, modelCalls, hit, stored, c) == [result |-> result, thrown |-> isThrown, answer |-> answer, modelCalls |-> modelCalls, hit |-> hit, readFailed |-> FALSE, stored |-> stored, cache |-> c]

\* analyzeIntent, lines 108-117: the catch block
IntentCatch(text, language, t, code, answer, c) ==
  IF code \in {"insufficient_quota", "rate_limit_exceeded"}
  THEN IntentRun(Stamped(IntentThrown, text, language, t), TRUE, answer, 1, FALSE, FALSE, c)
  ELSE IntentRun(Stamped(FallbackIntentAnalysis(text), text, language, t), FALSE, answer, 1, FALSE, FALSE, c)

\* analyzeIntent, lines 67-106: the cache missed
IntentMiss(text, language, t, c) ==
  LET key == IntentCacheKey(text, language)
  IN UNION {LET normalizedResult == Stamped(NormalizeIntentResult(a[1], a[2]), text, language, t)
            IN {IntentRun(normalizedResult, FALSE, a, 1, FALSE, TRUE, CacheSet(c, key, normalizedResult, NlpCacheTTL, t)),
                IntentCatch(text, language, t, "cache", a, c)}
            : a \in ModelAnswers}
     \cup {IntentCatch(text, language, t, code, NoAnswer, c) : code \in ModelFailures}

\* analyzeIntent with its cache: every run a call can make.  CacheService.get
\* answers null when the read fails, which analyzeIntent takes for a miss.
AnalyzeIntentRuns(text, language, t, c) ==
  LET key == IntentCacheKey(text, language)
  IN IF CacheHas(c, key, t)
     THEN {IntentRun(c[key].value, FALSE, NoAnswer, 0, TRUE, FALSE, c)} \cup {[r EXCEPT !.readFailed = TRUE] : r \in IntentMiss(text, language, t, c)}
     ELSE IntentMiss(text, language, t, c)

\* ------------------------------------------ NLPService.detectLanguage, cached

\* `nlp:lang:${this.hashText(text)}`
LanguageCacheKey(text) == "nlp:lang:" \o HashText(text)

\* One run of detectLanguage: what it returns, the hosted-model calls it
\* made, whether its cache read found a truthy value or failed, whether it
\* wrote the cache, and the cache it leaves.
LanguageRun(result, modelCalls, hit, stored, c) == [result |-> result, modelCalls |-> modelCalls, hit |-> hit, readFailed |-> FALSE, stored |-> stored, cache |-> c]

\* detectLanguage after `if (cachedResult)` failed: the quick detection, else
\* the hosted model, whose answer counts only when it is a supported
\* language; the result, null included, is written to the cache.  An error
\* of the model call or of the cache write is caught and answered with null.
LanguageMiss(text, t, c) ==
  LET key == LanguageCacheKey(text)
      quickDetection == QuickLanguageDetection(text)
  IN IF quickDetection # Null
     THEN {LanguageRun(quickDetection, 0, FALSE, TRUE, CacheSet(c, key, quickDetection, NlpCacheTTL, t)),
           LanguageRun(Null, 0, FALSE, FALSE, c)}
     ELSE UNION {LET finalLanguage == IF detectedLanguage \in {"fr", "en"} THEN detectedLanguage ELSE Null
                 IN {LanguageRun(finalLanguage, 1, FALSE, TRUE, CacheSet(c, key, finalLanguage, NlpCacheTTL, t)),
                     LanguageRun(Null, 1, FALSE, FALSE, c)}
                 : detectedLanguage \in ModelLanguages}

\* detectLanguage with its cache: every run a call can make.  A cached null
\* is read back as null, and CacheService.get answers null when the read
\* fails: detectLanguage takes both for a miss.
DetectLanguageRuns(text, t, c) ==
  LET key == LanguageCacheKey(text)
  IN IF CacheHas(c, key, t) /\ Truthy(c[key].value)
     THEN {LanguageRun(c[key].value, 0, TRUE, FALSE, c)} \cup {[r EXCEPT !.readFailed = TRUE] : r \in LanguageMiss(text, t, c)}
     ELSE LanguageMiss(text, t, c)

\* ----------------------------------------- KnowledgeBaseService.search, cached

\* The KnowledgeBase rows the store is seeded with: French has active
\* entries, English has none.
SeededEntries ==
  << [language |-> "fr", isActive |-> TRUE, question |-> "Quels sont vos horaires ?", keywords |-> <<"horaires", "ouverture">>, answer |-> KbAnswer, usageCount |-> 0],
     [language |-> "en", isActive |-> FALSE, question |-> "What are your opening hours ?", keywords |-> <<"hours", "opening">>, answer |-> "We are open 9-6.", usageCount |-> 0],
     [language |-> "fr", isActive |-> TRUE, question |-> "Comment suivre ma commande ?", keywords |-> <<"commande", "suivi">>, answer |-> "Suivez votre commande dans votre espace client.", usageCount |-> 0] >>

\* String.prototype.split(' ')
RECURSIVE SplitFrom(_, _)
SplitFrom(word, text) == IF text = "" THEN <<word>>
                         ELSE IF SubSeq(text, 1, 1) = " " THEN <<word>> \o SplitFrom("", SubSeq(text, 2, Len(text)))
                         ELSE SplitFrom(word \o SubSeq(text, 1, 1), SubSeq(text, 2, Len(text)))
Split(text) == SplitFrom("", text)

LongWord(word) == Len(word) > MinQueryWordLength

\* array.filter(pred).length
CountIn(seq, Pred(_)) == Cardinality({i \in 1..Len(seq) : Pred(seq[i])})

\* searchByKeywords, lines 1102-1126: the where clause of findMany
KeywordWhere(entry, query, queryWords, language) ==
  /\ entry.language = language
  /\ entry.isActive
  /\ \/ Includes(ToLowerCase(entry.question), ToLowerCase(query))
     \/ \E i \in 1..Len(queryWords), j \in 1..Len(entry.keywords) : queryWords[i] = entry.keywords[j]

\* calculateKeywordConfidence: score and maxScore, both in tenths
KeywordScore(query, queryWords, entry) ==
  LET questionLower == ToLowerCase(entry.question)
      questionWords == Split(questionLower)
      InKeywords(word) == \E j \in 1..Len(entry.keywords) : Includes(ToLowerCase(entry.keywords[j]), word)
      InQuestion(word) == \E j \in 1..Len(questionWords) : Includes(questionWords[j], word)
  IN (IF Includes(questionLower, query) THEN 20 ELSE 0)
     + 10 * CountIn(queryWords, InKeywords)
     + 5 * CountIn(queryWords, InQuestion)
     + (IF entry.usageCount > FrequentUsage THEN 2 ELSE 0)
KeywordMaxScore(queryWords) == 10 * (Len(queryWords) + 2)

\* Math.min(score / maxScore, 1), in hundredths (rounded down)
KeywordConfidence(query, queryWords, entry) ==
  LET score == KeywordScore(query, queryWords, entry)
      maxScore == KeywordMaxScore(queryWords)
  IN IF score >= maxScore THEN 100 ELSE (100 * score) \div maxScore

\* One element of a result list.
KbHit(id, entry, confidence, source) == [id |-> id, question |-> entry.question, answer |-> entry.answer, confidence |-> confidence, source |-> source]

\* The ids of a table in the order `orderBy: { usageCount: 'desc' }` gives
\* (rows with equal counts in id order).
RECURSIVE ByUsage(_, _)
ByUsage(kb, ids) == IF ids = {} THEN << >>
                    ELSE LET first == CHOOSE i \in ids : \A j \in ids : kb[j].usageCount < kb[i].usageCount \/ (kb[j].usageCount = kb[i].usageCount /\ i <= j)
                         IN <<first>> \o ByUsage(kb, ids \ {first})

\* results.sort((a, b) => b.confidence - a.confidence), a stable sort
RECURSIVE ByConfidence(_)
ByConfidence(results) == IF results = << >> THEN << >>
                         ELSE LET best == CHOOSE i \in 1..Len(results) : \A j \in 1..Len(results) : results[j].confidence < results[i].confidence \/ (results[j].confidence = results[i].confidence /\ i <= j)
                              IN <<results[best]>> \o ByConfidence(SubSeq(results, 1, best - 1) \o SubSeq(results, best + 1, Len(results)))

\* array.slice(0, n)
Slice(seq, n) == SubSeq(seq, 1, IF Len(seq) < n THEN Len(seq) ELSE n)

\* searchByKeywords: [] when the query has no word of three letters or more,
\* or when findMany fails
SearchByKeywords(kb, query, language, limit, dbFails) ==
  LET queryWords == SelectSeq(Split(query), LongWord)
      ids == Slice(ByUsage(kb, {i \in DOMAIN kb : KeywordWhere(kb[i], query, queryWords, language)}), 2 * limit)
      results == [n \in 1..Len(ids) |-> KbHit(ids[n], kb[ids[n]], KeywordConfidence(query, queryWords, kb[ids[n]]), "keyword")]
      Relevant(r) == r.confidence > KeywordRelevance
  IN IF queryWords = << >> \/ dbFails THEN << >>
     ELSE Slice(ByConfidence(SelectSeq(results, Relevant)), limit)

\* evaluateSemanticRelevance: [] for no entries; else the scores the hosted
\* model gives, or a zero for every entry when the call fails.  The call is
\* this.nlpService.model.generateContent(...), and NLPService.model is the
\* model's name, a string: the call always fails.
EvaluateSemanticRelevance(entries) == [n \in 1..Len(entries) |-> 0]

\* searchSemantic after its analyzeIntent call: findMany, the scores, the filter
SemanticResults(kb, language, limit, dbFails) ==
  LET ids == Slice(ByUsage(kb, {i \in DOMAIN kb : kb[i].language = language /\ kb[i].isActive}), SemanticTake)
      scores == EvaluateSemanticRelevance(ids)
      results == [n \in 1..Len(ids) |-> KbHit(ids[n], kb[ids[n]], scores[n], "semantic")]
      Similar(r) == r.confidence > SimilarityThreshold
  IN IF dbFails THEN << >> ELSE Slice(ByConfidence(SelectSeq(results, Similar)), limit)

\* `kb:search:${this.hashText(normalizedQuery)}:${language}:${limit}`
SearchCacheKey(normalizedQuery, language, limit) == "kb:search:" \o HashText(normalizedQuery) \o ":" \o language \o ":" \o ToString(limit)

\* results[0] || null, and whether the semantic tier ran
BestOf(results, semantic) == IF results = << >> THEN [NoKbResult EXCEPT !.semantic = semantic]
                             ELSE [found |-> TRUE, answer |-> results[1].answer, confidence |-> results[1].confidence, semantic |-> semantic]

\* One run of search: what it returns or throws, the list it ranked, the
\* collaborators that failed during the run, whether the outer catch block
\* ended it, and the cache it leaves.
SearchRun(result, isThrown, ranked, failed, c) == [result |-> result, thrown |-> isThrown, ranked |-> ranked, failed |-> failed, caught |-> FALSE, cache |-> c]

\* A search whose outer catch block rethrows.
SearchCatchRethrown(failed, c) == [SearchRun(NoKbResult, TRUE, << >>, failed, c) EXCEPT !.caught = TRUE]

\* search, lines 1086-1089: the catch block logs and returns null
SearchCatch(failed, c) == [SearchRun(NoKbResult, FALSE, << >>, failed, c) EXCEPT !.caught = TRUE]

\* What failed in the analyzeIntent call of searchSemantic: the hosted model
\* (an error, or an answer JSON.parse rejects) or the cache (a failed read
\* or write).
IntentFailures(run) ==
  (IF run.modelCalls = 1 /\ run.answer = NoAnswer THEN {"model"} ELSE {})
  \cup (IF run.readFailed \/ (run.modelCalls = 1 /\ run.answer # NoAnswer /\ ~run.stored) THEN {"cache"} ELSE {})

\* search, lines 1063-1084: the semantic tier, the merge and the cache write
SearchFull(kb, normalizedQuery, language, limit, t, c, keywordResults, failed) ==
  LET key == SearchCacheKey(normalizedQuery, language, limit)
  IN UNION {LET allResults == Slice(ByConfidence(keywordResults \o (IF run.thrown THEN << >> ELSE SemanticResults(kb, language, limit, dbFails))), limit)
                failures == failed \cup IntentFailures(run) \cup (IF dbFails /\ ~run.thrown THEN {"database"} ELSE {})
            IN {SearchRun(BestOf(allResults, TRUE), FALSE, allResults, failures, CacheSet(run.cache, key, allResults, SearchCacheTTL, t)),
                SearchCatch(failures \cup {"cache"}, run.cache)}
            : run \in AnalyzeIntentRuns(normalizedQuery, language, t, c), dbFails \in BOOLEAN}

\* search, lines 1042-1084: the cache missed
SearchMiss(kb, normalizedQuery, language, limit, t, c) ==
  LET key == SearchCacheKey(normalizedQuery, language, limit)
  IN UNION {LET keywordResults == SearchByKeywords(kb, normalizedQuery, language, limit, dbFails)
                failed == IF dbFails THEN {"database"} ELSE {}
            IN IF keywordResults # << >> /\ keywordResults[1].confidence > KeywordShortcut
               THEN {SearchRun(BestOf(keywordResults, FALSE), FALSE, keywordResults, failed, CacheSet(c, key, keywordResults, SearchCacheTTL, t)),
                     SearchCatch({"cache"}, c)}
               ELSE SearchFull(kb, normalizedQuery, language, limit, t, c, keywordResults, failed)
            : dbFails \in BOOLEAN}

\* search with its cache: every run a call can make.  initialize may throw
\* (getPrismaClient); an empty query is a ValidationError; a failed cache
\* read is a miss.
SearchRuns(kb, query, language, limit, t, c) ==
  IF ~Truthy(query) \/ Trim(query) = "" THEN {SearchCatch({}, c), SearchCatch({"database"}, c)}
  ELSE LET normalizedQuery == ToLowerCase(Trim(query))
           key == SearchCacheKey(normalizedQuery, language, limit)
       IN {SearchCatch({"database"}, c)}
          \cup (IF CacheHas(c, key, t)
                THEN {SearchRun(BestOf(c[key].value, FALSE), FALSE, c[key].value, {}, c)}
                     \cup {[r EXCEPT !.failed = @ \cup {"cache"}] : r \in SearchMiss(kb, normalizedQuery, language, limit, t, c)}
                ELSE SearchMiss(kb, normalizedQuery, language, limit, t, c))

\* ---------------------------------------------- step 5: the call's own objects

\* The objects a handler works on: the call's `user` and `session`, the time,
\* the user's ticket rows, and what the handler has done so far: the language
\* written to the User row (dbLanguage), the collaborators invoked (trail) and
\* their results, and whether a Ticket row was inserted.
Work(u, s, t, n) == [user |-> u, session |-> s, at |-> t, ticketCount |-> n, dbLanguage |-> Null, trail |-> << >>, nlpResult |-> NoIntent, kbResult |-> NoKbResult, aiResponse |-> Null, ticketCreated |-> FALSE]

Called(w, name) == [w EXCEPT !.trail = Append(@, name)]

\* How a handler ends: it returns a response, or it throws.
Returns(w, r) == [work |-> w, thrown |-> FALSE, response |-> r]
Throws(w) == [work |-> w, thrown |-> TRUE, response |-> NoResponse]

\* ------------------------------------------------------------- IntentHandler

HandoffKeywords == <<"agent", "humain", "personne", "help", "aide">>

\* A keyword test that never asks for a transfer.
ShouldNeverTransfer(text) == FALSE

\* shouldTransferToHuman
ShouldTransferToHuman(text) == SomeIncluded(ToLowerCase(text), HandoffKeywords)

\* What the hosted model may answer to the free-text prompt.
AiModelOutputs == {" I cannot help you with that. ", "Try again ok", " Restart the app "}
VeryUnhelpfulPhrases == <<"je ne peux pas vous aider", "i cannot help you", "je ne sais pas du tout", "i have no idea", "je ne comprends pas votre question", "i don't understand your question">>

\* A generateAIResponse that returns the model's answer as it is, trimmed.
TrimmedAIResponse(raw) == Trim(raw)

\* generateAIResponse, from the model's answer on: trim, then the filter
FilterAIResponse(raw) == LET aiResponse == Trim(raw) IN IF SomeIncluded(ToLowerCase(aiResponse), VeryUnhelpfulPhrases) \/ Len(aiResponse) < MinAIResponseLength THEN Null ELSE aiResponse

\* generateAIResponse: every result a call can end with (null on any failure)
GenerateAIResponse(text, language) == {Null} \cup {FilterAIResponse(raw) : raw \in AiModelOutputs}

\* try { aiResponse = await generateAIResponse(...); if (aiResponse &&
\* aiResponse.length > 10) return text } catch {}; return <otherwise>
AIResponseOr(w, text, otherwise) == {LET w2 == [Called(w, "generateAIResponse") EXCEPT !.aiResponse = ai] IN IF Truthy(ai) /\ Len(ai) > MinAcceptedAILength THEN Returns(w2, TextResponse(Verbatim(ai))) ELSE Returns(Called(w2, "menu"), otherwise) : ai \in GenerateAIResponse(text, w.user.language)}

TimesOfDay == {"morning", "afternoon", "evening"}

\* The menu with its first two buttons swapped.
MenuButtonsFaqFirst == <<"faq", "help", "contact_agent">>

\* The buttons of the greeting and fallback menus, by id.
MenuButtons == <<"help", "faq", "contact_agent">>

\* handleGreeting (the greeting's wording follows the hour of the day)
HandleGreeting(w) == {Returns(w, InteractiveResponse(GetLocalizedMessage("greeting." \o timeOfDay, w.user.language), MenuButtons)) : timeOfDay \in TimesOfDay}

\* handleHelp
HelpMenu(w) == ListResponse(GetLocalizedMessage("help.main_text", w.user.language), <<"create_ticket", "check_ticket", "faq", "contact_agent">>)
HandleHelp(w) == {Returns(w, HelpMenu(w))}

\* getFallbackResponse
FallbackMenu(w) == InteractiveResponse(GetFallbackConversationalMessage(w.user.language), MenuButtons)
GetFallbackResponse(w) == {Returns(w, FallbackMenu(w))}

\* A knowledge-base search made by a handler, with the nested analyzeIntent of
\* its semantic tier.
Searched(w, kb) == LET w2 == [Called(w, "knowledgeBase.search") EXCEPT !.kbResult = kb] IN IF kb.semantic THEN Called(w2, "analyzeIntent") ELSE w2

\* handleFAQ
FaqMenu(w) == InteractiveResponse(GetLocalizedMessage("faq.main_text", w.user.language), <<"faq_products", "faq_support", "contact_agent">>)
HandleFAQ(w, originalText) == IF Truthy(originalText) THEN {IF kb.found /\ kb.confidence > FaqConfidenceThreshold THEN Returns(Searched(w, kb), TextResponse(Verbatim(kb.answer))) ELSE Returns(Searched(w, kb), FaqMenu(w)) : kb \in KnowledgeBaseSearch(originalText, w.user.language)} ELSE {Returns(w, FaqMenu(w))}

\* initiateHumanHandoff
InitiateHumanHandoff(w, originalText) == {Returns([w EXCEPT !.session.context = [@ EXCEPT !.pendingHandoff = TRUE, !.handoffReason = originalText, !.handoffTimestamp = w.at]], TextResponse(GetLocalizedMessage("handoff.initiated", w.user.language)))}

\* handleGoodbye
HandleGoodbye(w) == {Returns([w EXCEPT !.session.status = "ENDED", !.session.context.endedAt = w.at], TextResponse(GetLocalizedMessage("goodbye.message", w.user.language)))}

\* ------------------------------------------------------ TicketMessageHandler

\* extractTicketInfo gives a falsy title or description only for a text that
\* cleanText reduces to the empty string.
TicketInfoMissing(text) == ~Truthy(text) \/ Trim(text) = ""

\* handleCreateTicket: need-more-info, or createTicket, which inserts the row
\* and then deletes a cache key; an error of either is answered with
\* ticket.creation_error (the row may exist by then).
HandleCreateTicket(w, originalText) == IF TicketInfoMissing(originalText) THEN {Returns(w, TextResponse(GetLocalizedMessage("ticket.need_more_info", w.user.language)))} ELSE LET w2 == Called(w, "createTicket") IN {Returns([w2 EXCEPT !.ticketCreated = TRUE], TextResponse(GetLocalizedMessage("ticket.created_success", w.user.language))), Returns([w2 EXCEPT !.ticketCreated = TRUE], TextResponse(GetLocalizedMessage("ticket.creation_error", w.user.language))), Returns(w2, TextResponse(GetLocalizedMessage("ticket.creation_error", w.user.language)))}

\* handleCheckTicketStatus: getUserTickets(user.id, null, 5) answers from its
\* cache or from the table; an error is answered with ticket.status_error.
HandleCheckTicketStatus(w) == LET w2 == Called(w, "getUserTickets") IN {Returns(w2, TextResponse(GetLocalizedMessage("ticket.status_error", w.user.language))), Returns(w2, TextResponse(GetLocalizedMessage("ticket.no_tickets", w.user.language)))} \cup (IF w.ticketCount > 0 THEN {Returns(w2, TextResponse(ListOf("ticket.status_header", w.user.language)))} ELSE {})

CreationKeywords == [fr |-> <<"créer un ticket", "nouveau ticket", "ouvrir un ticket", "créer ticket", "ticket">>, en |-> <<"create ticket", "new ticket", "open ticket", "ticket">>]
StatusKeywords == [fr |-> <<"statut ticket", "état ticket", "vérifier ticket", "mes tickets", "ticket status">>, en |-> <<"ticket status", "check ticket", "my tickets", "ticket state">>]

KeywordsFor(table, language) == IF language \in DOMAIN table THEN table[language] ELSE table.fr

\* The pieces of a function 1..n -> strings, joined in order.
RECURSIVE Glued(_, _, _)
Glued(pieces, from, to) == IF from > to THEN ""
                           ELSE IF from = to THEN pieces[from]
                           ELSE Glued(pieces, from, (from + to) \div 2) \o Glued(pieces, (from + to) \div 2 + 1, to)

\* messageFormatter.cleanText: trim, then every run of white space becomes
\* one space
Whitespace == {" ", "\n", "\t"}
Collapsed(t) == Glued([i \in 1..Len(t) |-> IF SubSeq(t, i, i) \notin Whitespace THEN SubSeq(t, i, i)
                                           ELSE IF i < Len(t) /\ SubSeq(t, i + 1, i + 1) \in Whitespace THEN "" ELSE " "], 1, Len(t))
CleanText(text) == IF ~Truthy(text) THEN "" ELSE Trim(Collapsed(text))

\* messageFormatter.truncateText
TruncateText(text, maxLength) == IF ~Truthy(text) \/ Len(text) <= maxLength THEN text ELSE SubSeq(text, 1, maxLength - 3) \o "..."

\* content.replace(new RegExp(keyword, 'gi'), ''): the matches are taken from
\* left to right
RECURSIVE RemoveAll(_, _)
RemoveAll(t, keyword) ==
  LET matches == {i \in 1..(Len(t) - Len(keyword) + 1) : ToLowerCase(SubSeq(t, i, i + Len(keyword) - 1)) = ToLowerCase(keyword)}
      first == CHOOSE i \in matches : \A j \in matches : i <= j
  IN IF matches = {} THEN t ELSE SubSeq(t, 1, first - 1) \o RemoveAll(SubSeq(t, first + Len(keyword), Len(t)), keyword)

\* extractTicketInfo: ticketKeywords, and the forEach that removes them, with
\* a trim after each
TicketKeywords == [fr |-> <<"créer un ticket", "nouveau ticket", "ouvrir un ticket", "problème", "bug", "aide">>,
                   en |-> <<"create ticket", "new ticket", "open ticket", "problem", "bug", "help">>]
RECURSIVE StripKeywords(_, _)
StripKeywords(content, keywords) == IF keywords = << >> THEN content ELSE StripKeywords(Trim(RemoveAll(content, Head(keywords))), Tail(keywords))

\* A content that is always the text without its keywords.
TicketContentStripped(cleanText, language) == StripKeywords(cleanText, KeywordsFor(TicketKeywords, language))

\* extractTicketInfo, lines 1419-1432: the text without its keywords, or the
\* whole text when fewer than 10 characters are left
TicketContent(cleanText, language) ==
  LET content == StripKeywords(cleanText, KeywordsFor(TicketKeywords, language))
  IN IF Len(content) < MinContentLength THEN cleanText ELSE content

\* String.prototype.split at every character of a set
RECURSIVE SplitAt(_, _)
SplitAt(text, separators) ==
  LET at == {i \in 1..Len(text) : SubSeq(text, i, i) \in separators}
      first == CHOOSE i \in at : \A j \in at : i <= j
  IN IF at = {} THEN <<text>> ELSE <<SubSeq(text, 1, first - 1)>> \o SplitAt(SubSeq(text, first + 1, Len(text)), separators)

\* content.split(/[:\n-]/).map(p => p.trim()).filter(p => p.length > 0)
Separators == {":", "\n", "-"}
NonEmpty(part) == Len(part) > 0
TrimmedParts(content) == LET parts == SplitAt(content, Separators) IN SelectSeq([n \in 1..Len(parts) |-> Trim(parts[n])], NonEmpty)

\* array.join(' ')
Join(parts) == Glued([n \in 1..Len(parts) |-> IF n = 1 THEN parts[n] ELSE " " \o parts[n]], 1, Len(parts))

GenericTitle(language) == IF language = "fr" THEN "Demande d'assistance" ELSE "Support Request"

\* generateTitleFromText
GenerateTitleFromText(text, language) ==
  IF ~Truthy(text) THEN GenericTitle(language)
  ELSE LET words == Slice(SplitAt(text, {" "}), TitleWords)
           joined == Join(words)
           title == IF Len(joined) > GeneratedTitleLength THEN SubSeq(joined, 1, GeneratedTitleLength - 3) \o "..." ELSE joined
       IN IF Truthy(title) THEN title ELSE GenericTitle(language)

\* extractTicketInfo
ExtractTicketInfo(text, language) ==
  LET cleanText == CleanText(text)
      content == TicketContent(cleanText, language)
      parts == TrimmedParts(content)
      split == (\E i \in 1..Len(content) : SubSeq(content, i, i) \in Separators) /\ Len(parts) >= 2
      title == IF split THEN TruncateText(parts[1], SplitTitleLength) ELSE GenerateTitleFromText(content, language)
      description == IF split THEN Join(Tail(parts)) ELSE content
  IN [title |-> IF Truthy(title) THEN title ELSE GenericTitle(language),
      description |-> IF Truthy(description) THEN description ELSE content]

\* isTicketCreationRequest, isTicketStatusRequest
IsTicketCreationRequest(text, language) == SomeIncluded(ToLowerCase(text), KeywordsFor(CreationKeywords, language))
IsTicketStatusRequest(text, language) == SomeIncluded(ToLowerCase(text), KeywordsFor(StatusKeywords, language))

\* analyzeTicketIntent: the intent and its confidence, or null
AnalyzeTicketIntent(text, language) == IF IsTicketCreationRequest(text, language) THEN [intent |-> "create_ticket", confidence |-> TicketIntentConfidence] ELSE IF IsTicketStatusRequest(text, language) THEN [intent |-> "check_ticket_status", confidence |-> TicketIntentConfidence] ELSE [intent |-> Null, confidence |-> 0]


\* -------------------------------------------------------------- TicketService

\* A list of statuses that lets "FOO" through.
ValidStatusesAndFoo == {"OPEN", "IN_PROGRESS", "WAITING_CUSTOMER", "RESOLVED", "CLOSED", "FOO"}

\* updateTicketStatus: validStatuses
ValidStatuses == {"OPEN", "IN_PROGRESS", "WAITING_CUSTOMER", "RESOLVED", "CLOSED"}

UrgentKeywords == [fr |-> <<"urgent", "critique", "bloqué", "panne", "ne fonctionne pas", "cassé", "erreur critique">>,
                   en |-> <<"urgent", "critical", "blocked", "down", "not working", "broken", "critical error">>]
HighPriorityKeywords == [fr |-> <<"important", "rapidement", "vite", "problème", "bug", "dysfonctionnement">>,
                         en |-> <<"important", "quickly", "fast", "problem", "bug", "malfunction">>]

\* words.some(word => lowerText.includes(word))
SomeWord(lowerText, words) == \E i \in 1..Len(words) : Includes(lowerText, words[i])

\* A priority rule that looks for the high-priority keywords first.
DeterminePriorityHighFirst(text, language) ==
  LET lowerText == ToLowerCase(text)
  IN IF SomeWord(lowerText, KeywordsFor(HighPriorityKeywords, language)) THEN "HIGH"
     ELSE IF SomeWord(lowerText, KeywordsFor(UrgentKeywords, language)) THEN "URGENT"
     ELSE "NORMAL"

\* determinePriority
DeterminePriority(text, language) ==
  LET lowerText == ToLowerCase(text)
  IN IF SomeWord(lowerText, KeywordsFor(UrgentKeywords, language)) THEN "URGENT"
     ELSE IF SomeWord(lowerText, KeywordsFor(HighPriorityKeywords, language)) THEN "HIGH"
     ELSE "NORMAL"

\* The row prisma.ticket.create inserts (status: 'OPEN')
NewTicket(userId, t) == [userId |-> userId, status |-> "OPEN", assignedAgent |-> Null, resolvedAt |-> NoTime, updatedAt |-> t]

\* The ids of a user's rows.
TicketsOf(rows, userId) == {i \in DOMAIN rows : rows[i].userId = userId}

\* A row as a call returns it and as JSON.stringify writes it to the cache.
TicketCopy(rows, id) == [id |-> id, userId |-> rows[id].userId, status |-> rows[id].status, assignedAgent |-> rows[id].assignedAgent, resolvedAt |-> rows[id].resolvedAt]
NoTicket == [id |-> NoId, userId |-> Null, status |-> Null, assignedAgent |-> Null, resolvedAt |-> NoTime]

\* The ids of a set of rows, newest first (orderBy: { createdAt: 'desc' }).
RECURSIVE NewestFirst(_)
NewestFirst(ids) == IF ids = {} THEN << >> ELSE LET newest == CHOOSE i \in ids : \A j \in ids : j <= i IN <<newest>> \o NewestFirst(ids \ {newest})

\* findMany({ where: { userId, status? }, orderBy, take: limit, skip: offset })
FindUserTickets(rows, userId, status, limit, offset) ==
  LET ids == NewestFirst({i \in TicketsOf(rows, userId) : status = Null \/ rows[i].status = status})
      page == SubSeq(ids, offset + 1, IF Len(ids) < offset + limit THEN Len(ids) ELSE offset + limit)
  IN [n \in 1..Len(page) |-> TicketCopy(rows, page[n])]

\* The cache keys of TicketService.
TicketKey(ticketId) == "ticket:" \o ToString(ticketId)
UserTicketsKey(userId) == "tickets:user:" \o userId
UserTicketsListKey(userId, status, limit, offset) == "tickets:user:" \o userId \o ":" \o (IF status = Null THEN "all" ELSE status) \o ":" \o ToString(limit) \o ":" \o ToString(offset)

\* updateTicketStatus, lines 191-206: the data of the update
StatusUpdate(row, newStatus, agentId, t) ==
  [row EXCEPT !.status = newStatus, !.updatedAt = t,
              !.assignedAgent = IF agentId # Null THEN agentId ELSE @,
              !.resolvedAt = IF newStatus \in {"RESOLVED", "CLOSED"} THEN t ELSE @]

\* assignTicket, lines 248-252: the data of the update
Assignment(row, agentId, t) == [row EXCEPT !.assignedAgent = agentId, !.status = "IN_PROGRESS", !.updatedAt = t]

\* A where clause that also takes the tickets resolved exactly at the cutoff.
AutoClosableAtCutoff(row, t) == row.status = "RESOLVED" /\ row.resolvedAt # NoTime /\ row.resolvedAt <= t - AutoCloseDelay

\* autoCloseResolvedTickets: the where clause and the data of updateMany
AutoClosable(row, t) == row.status = "RESOLVED" /\ row.resolvedAt # NoTime /\ row.resolvedAt < t - AutoCloseDelay
AutoClosed(row, t) == [row EXCEPT !.status = "CLOSED", !.updatedAt = t]

\* ------------------------------------------- IntentHandler: dispatch by intent

WhoAreYouPatterns == <<"qui tu es", "qui es-tu", "who are you", "what are you">>
CapabilityPatterns == <<"que peux-tu faire", "tes capacités", "what can you do", "capabilities">>

\* handleIntent
HandleIntent(w, nlpResult, originalText) ==
  LET intent == nlpResult.intent
      lowerText == ToLowerCase(originalText)
      language == w.user.language
  IN CASE intent = "greeting" -> HandleGreeting(w)
       [] intent = "help" ->
            IF SomeIncluded(lowerText, WhoAreYouPatterns)
            THEN {Returns(w, TextResponse(GetLocalizedMessage("bot.introduction", language)))}
            ELSE AIResponseOr(w, originalText, HelpMenu(w))
       [] intent = "create_ticket" -> HandleCreateTicket(w, originalText)
       [] intent = "check_ticket_status" -> HandleCheckTicketStatus(w)
       [] intent = "faq" -> HandleFAQ(w, originalText)
       [] intent = "contact_agent" -> InitiateHumanHandoff(w, originalText)
       [] intent = "goodbye" -> HandleGoodbye(w)
       [] intent = "technical_support" -> AIResponseOr(w, originalText, FallbackMenu(w))
       [] intent = "product_inquiry" ->
            IF SomeIncluded(lowerText, CapabilityPatterns)
            THEN {Returns(w, TextResponse(GetLocalizedMessage("bot.capabilities", language)))}
            ELSE AIResponseOr(w, originalText, FallbackMenu(w))
       [] OTHER -> AIResponseOr(w, originalText, FallbackMenu(w))

\* handleTextInput
HandleTextInput(w, text) ==
  LET ticketIntent == AnalyzeTicketIntent(text, w.user.language)
  IN IF ticketIntent.intent # Null /\ ticketIntent.confidence > TicketIntentThreshold /\ ticketIntent.intent = "create_ticket"
     THEN HandleCreateTicket(w, text)
     ELSE IF ticketIntent.intent # Null /\ ticketIntent.confidence > TicketIntentThreshold /\ ticketIntent.intent = "check_ticket_status"
     THEN HandleCheckTicketStatus(w)
     ELSE AIResponseOr(w, text, FallbackMenu(w))

\* handleButtonClick
HandleButtonClick(w, buttonId, buttonTitle) ==
  CASE buttonId \in {"help", "aide"} -> HandleHelp(w)
    [] buttonId = "faq" -> HandleFAQ(w, buttonTitle)
    [] buttonId \in {"contact_agent", "contacter_agent"} -> InitiateHumanHandoff(w, buttonTitle)
    [] buttonId \in {"greeting", "salutation"} -> HandleGreeting(w)
    [] buttonId = "create_ticket" -> {Returns(w, TextResponse(GetLocalizedMessage("ticket.need_more_info", w.user.language)))}
    [] buttonId = "check_ticket" -> HandleCheckTicketStatus(w)
    [] OTHER -> IF buttonTitle = Null THEN {Throws(w)} ELSE HandleTextInput(w, buttonTitle)

\* handleListSelection
HandleListSelection(w, listId, listTitle) == HandleButtonClick(w, listId, listTitle)

\* ------------------------------------------ MessageProcessor: the type handlers

\* getDefaultResponse
GetDefaultResponse(w) == {Returns(w, TextResponse(GetFallbackMessage(w.user.language)))}

\* A language switch that takes whatever detectLanguage returned.
SwitchLanguageUnguarded(w, detectedLanguage) ==
  IF detectedLanguage # w.user.language
  THEN {[w EXCEPT !.user.language = detectedLanguage, !.dbLanguage = detectedLanguage],
        [w EXCEPT !.user.language = detectedLanguage]}
  ELSE {w}

\* processTextMessage, lines 141-146: the language switch.  updateUserLanguage
\* swallows a failed update; the call's user object is switched either way.
SwitchLanguage(w, detectedLanguage) ==
  IF detectedLanguage # Null /\ detectedLanguage \in SupportedLanguages /\ detectedLanguage # w.user.language
  THEN {[w EXCEPT !.user.language = detectedLanguage, !.dbLanguage = detectedLanguage],
        [w EXCEPT !.user.language = detectedLanguage]}
  ELSE {w}

\* Low-confidence fallbacks whose knowledge-base answer already counts at
\* the threshold.
LowConfidenceAtThreshold(w, text) ==
  UNION {LET w2 == Searched(w, kbResult)
         IN IF kbResult.found /\ kbResult.confidence >= KnowledgeBaseThreshold
            THEN {Returns(w2, TextResponse(Verbatim(kbResult.answer)))}
            ELSE AIResponseOr(w2, text, FallbackMenu(w2))
         : kbResult \in KnowledgeBaseSearch(text, w.user.language)}

\* processTextMessage, lines 168-193: the low-confidence fallbacks
LowConfidence(w, text) ==
  UNION {LET w2 == Searched(w, kbResult)
         IN IF kbResult.found /\ kbResult.confidence > KnowledgeBaseThreshold
            THEN {Returns(w2, TextResponse(Verbatim(kbResult.answer)))}
            ELSE AIResponseOr(w2, text, FallbackMenu(w2))
         : kbResult \in KnowledgeBaseSearch(text, w.user.language)}

\* processTextMessage, lines 153-193: classify, then branch on the confidence
Classified(w, text, nlpResult) ==
  LET w2 == [Called(w, "analyzeIntent") EXCEPT !.nlpResult = nlpResult]
  IN IF nlpResult.thrown THEN {Throws(w2)}
     ELSE IF nlpResult.confidence >= ConfidenceThreshold
     THEN HandleIntent(Called(w2, "handleIntent"), nlpResult, text)
     ELSE LowConfidence(w2, text)

\* processTextMessage, lines 148-193: after the language switch
Answered(w, text) ==
  IF ShouldTransferToHuman(text)
  THEN InitiateHumanHandoff(w, text)
  ELSE UNION {Classified(w, text, nlpResult) : nlpResult \in AnalyzeIntent(text, w.user.language)}

\* processTextMessage
ProcessTextMessage(w, text) ==
  UNION {UNION {Answered(w2, text) : w2 \in SwitchLanguage(Called(w, "detectLanguage"), detectedLanguage)}
         : detectedLanguage \in DetectLanguage(text)}

\* processInteractiveMessage (content is undefined for an interactive message
\* that is neither a button reply nor a list reply: reading it throws)
ProcessInteractiveMessage(w, content) ==
  IF ~content.defined THEN {Throws(w)}
  ELSE IF Truthy(content.buttonId) THEN HandleButtonClick(w, content.buttonId, content.buttonTitle)
  ELSE IF Truthy(content.listId) THEN HandleListSelection(w, content.listId, content.listTitle)
  ELSE GetDefaultResponse(w)

\* processMediaMessage
ProcessMediaMessage(w, mediaType, content) ==
  IF Truthy(content.caption) THEN ProcessTextMessage(w, content.caption)
  ELSE {Returns(w, TextResponse(GetLocalizedMessage("media." \o mediaType \o "_received", w.user.language)))}

\* processLocationMessage
ProcessLocationMessage(w, content) == {Returns(w, TextResponse(GetLocalizedMessage("location.received", w.user.language)))}

\* processIncomingMessage, lines 86-105: the switch on messageData.messageType
ProcessByType(w, p) ==
  CASE p.messageType = "text" -> ProcessTextMessage(w, p.content.text)
    [] p.messageType = "interactive" -> ProcessInteractiveMessage(w, p.content)
    [] p.messageType \in {"image", "audio", "video", "document"} -> ProcessMediaMessage(w, p.messageType, p.content)
    [] p.messageType = "location" -> ProcessLocationMessage(w, p.content)
    [] OTHER -> GetDefaultResponse(w)

\* ---------------------------------------------------------- inbound payloads

TextMessage(text) == [messageType |-> "text", content |-> [NoContent EXCEPT !.text = text]]
ButtonReply(id, title) == [messageType |-> "interactive", content |-> [NoContent EXCEPT !.buttonId = id, !.buttonTitle = title]]
ListReply(id, title) == [messageType |-> "interactive", content |-> [NoContent EXCEPT !.listId = id, !.listTitle = title]]
MediaMessage(type, caption) == [messageType |-> type, content |-> [NoContent EXCEPT !.caption = caption]]

\* Messages that need no language model: a location, a sticker, and an
\* interactive message that is neither a button reply nor a list reply.
PlainPayloads ==
  {[messageType |-> "location", content |-> NoContent],
   [messageType |-> "sticker", content |-> NoContent],
   [messageType |-> "interactive", content |-> [NoContent EXCEPT !.defined = FALSE]]}

\* What a user opens with before writing.
Openers == {[messageType |-> "location", content |-> NoContent]}

\* Text messages: a request for an agent, a greeting, a goodbye.
DialoguePayloads == {TextMessage("Je veux un agent"), TextMessage("Bonjour"), TextMessage("Merci, au revoir")}

\* The payloads of the calls that race for one user.
RacePayloads == {[messageType |-> "location", content |-> NoContent]}

\* The ids handleButtonClick has a case for.
RecognizedIds == {"help", "aide", "faq", "contact_agent", "contacter_agent", "greeting", "salutation", "create_ticket", "check_ticket"}

\* Replies to buttons and list rows: two with ids of the bot's own menus, and
\* three with ids handleButtonClick has no case for.
InteractionPayloads ==
  {ButtonReply("faq", "FAQ"), ListReply("contact_agent", "Agent"),
   ButtonReply("autre", "Je veux un agent"), ListReply("option_3", "Bonjour"),
   ButtonReply("lang_en", "Hello, how are you?")}

\* The payloads of two calls that race for one user who asks for an agent.
HandoffRacePayloads == {[messageType |-> "location", content |-> NoContent], TextMessage("Je veux un agent")}

\* ------------------------------------------------------ webhook deliveries

\* A change of a delivery: its field, and the numbers of messages and of
\* status updates in its value.  The changes of all the entries of a body
\* are taken in one sequence, in the order the handler's loops visit them.
Change(field, messages, statuses) == [field |-> field, messages |-> messages, statuses |-> statuses]
Changes == {Change("messages", m, s) : m \in 0..MaxMessages, s \in 0..MaxStatuses} \cup {Change("account_update", 0, 0)}

SequencesOf(S, n) == UNION {[1..k -> S] : k \in 1..n}

\* The bodies of the requests that passed verifyWebhookSignature.
Delivery(object, changes) == [object |-> object, changes |-> changes]
Deliveries == {Delivery("whatsapp_business_account", changes) : changes \in SequencesOf(Changes, MaxChanges)} \cup {Delivery("page", << >>)}

\* The promise of one processWebhookChange(change.value): where its loops
\* stand (each message and each status update: waiting, or how far it got)
\* and the call it awaits.
NoTask == [promise |-> "none", messages |-> << >>, statuses |-> << >>, awaiting |-> Null]
\* No request yet: step 0, and status 0 while no response is sent.
NoWebhook == [body |-> Delivery(Null, << >>), step |-> 0, status |-> 0, tasks |-> << >>]

\* ------------------------------------------------------------------- state

VARIABLES
  now,            \* Date.now()
  calls,          \* calls started so far: of processIncomingMessage, or of a service
  users,          \* table User, keyed by phoneNumber (unique); the key stands for the id
  conversations,  \* table Conversation, id = index
  messages,       \* table Message, id = index
  tickets,        \* table Ticket, id = index
  sessions,       \* session store: key session:<userId>
  pc,             \* where each call is
  messageData,    \* each call's argument: from, messageId, contact
  user,           \* each call's local `user`
  conversation,   \* each call's local `conversation` (an id)
  savedMessage,   \* each call's local `savedMessage` (an id)
  session,        \* each call's local `session`
  closing,        \* each call's stale conversation and the `now` it is closed with
  payload,        \* each call's messageData.messageType and .content
  response,       \* each call's local `response`
  trail,          \* each call's collaborator invocations of step 5, in order
  nlpResult,      \* each call's local `nlpResult`
  kbResult,       \* each call's local `kbResult`
  aiResponse,     \* each call's local `aiResponse`
  thrown,         \* the step of each call whose error reached the catch block
  sends,          \* each call's outbound send attempts, in order
  outcome,        \* each call's promise: pending, resolved or rejected
  knowledgeBase,  \* table KnowledgeBase, id = index
  cache,          \* the Redis keys of CacheService other than the sessions
  log,            \* the latest calls made to a service directly, oldest first
  webhook         \* the POST /webhook request being served: body, handler position, HTTP status, promises

shared == <<users, conversations, messages, tickets, sessions>>
step5 == <<payload, response, trail, nlpResult, kbResult, aiResponse>>
services == <<knowledgeBase, cache, log>>
slots == <<pc, messageData, user, conversation, savedMessage, session, closing, step5,
           thrown, sends, outcome>>
vars == <<now, calls, shared, pc, messageData, user, conversation, savedMessage,
          session, closing, step5, thrown, sends, outcome, services, webhook>>

NoUser == [phoneNumber |-> Null, name |-> Null, language |-> Null]
NoMessageData == [from |-> Null, messageId |-> Null,
                  contact |-> [name |-> Null, phoneNumber |-> Null]]
NoClosing == [id |-> NoId, at |-> NoTime]

\* A session's context before anything is put in it ({}), and the absence of
\* a session.
EmptyContext == [pendingHandoff |-> FALSE, handoffReason |-> Null, handoffTimestamp |-> NoTime, endedAt |-> NoTime]
NoSession == [conversationId |-> NoId, language |-> Null, context |-> EmptyContext, lastActivity |-> NoTime, status |-> Null]

\* No call of processIncomingMessage has been made.
IdleSlots ==
  /\ pc = [p \in Slots |-> "idle"]
  /\ messageData = [p \in Slots |-> NoMessageData]
  /\ user = [p \in Slots |-> NoUser]
  /\ conversation = [p \in Slots |-> NoId]
  /\ savedMessage = [p \in Slots |-> NoId]
  /\ session = [p \in Slots |-> NoSession]
  /\ closing = [p \in Slots |-> NoClosing]
  /\ payload = [p \in Slots |-> NoPayload]
  /\ response = [p \in Slots |-> NoResponse]
  /\ trail = [p \in Slots |-> << >>]
  /\ nlpResult = [p \in Slots |-> NoIntent]
  /\ kbResult = [p \in Slots |-> NoKbResult]
  /\ aiResponse = [p \in Slots |-> Null]
  /\ thrown = [p \in Slots |-> Null]
  /\ sends = [p \in Slots |-> << >>]
  /\ outcome = [p \in Slots |-> "resolved"]

\* Empty tables but for the seeded knowledge base, empty caches.
Init ==
  /\ now = 0
  /\ calls = 0
  /\ users = [ph \in Phones |-> NoUser]
  /\ conversations = << >>
  /\ messages = << >>
  /\ tickets = << >>
  /\ sessions = [ph \in Phones |-> [data |-> NoSession, expiresAt |-> NoTime]]
  /\ knowledgeBase = SeededEntries
  /\ cache = NoKeys
  /\ log = << >>
  /\ webhook = NoWebhook
  /\ IdleSlots

Goto(p, label) == pc' = [pc EXCEPT ![p] = label]

\* The clock readings an event can arrive at: now or later.
Later == {t \in {now + k * TickSeconds * MsPerSecond : k \in 0..MaxTime} : t <= MaxTime * TickSeconds * MsPerSecond}

\* processIncomingMessage is called with an inbound event, one of E, after
\* some time has passed.
ProcessIncomingMessage(p, E) ==
  /\ pc[p] \in {"idle", "done"}
  /\ calls < MaxCalls
  /\ calls' = calls + 1
  /\ \E t \in Later : now' = t
  /\ \E e \in E : messageData' = [messageData EXCEPT ![p] = e]
  /\ Goto(p, "user_findUnique")
  /\ user' = [user EXCEPT ![p] = NoUser]
  /\ conversation' = [conversation EXCEPT ![p] = NoId]
  /\ savedMessage' = [savedMessage EXCEPT ![p] = NoId]
  /\ session' = [session EXCEPT ![p] = NoSession]
  /\ closing' = [closing EXCEPT ![p] = NoClosing]
  /\ payload' = [payload EXCEPT ![p] = NoPayload]
  /\ response' = [response EXCEPT ![p] = NoResponse]
  /\ trail' = [trail EXCEPT ![p] = << >>]
  /\ nlpResult' = [nlpResult EXCEPT ![p] = NoIntent]
  /\ kbResult' = [kbResult EXCEPT ![p] = NoKbResult]
  /\ aiResponse' = [aiResponse EXCEPT ![p] = Null]
  /\ thrown' = [thrown EXCEPT ![p] = Null]
  /\ sends' = [sends EXCEPT ![p] = << >>]
  /\ outcome' = [outcome EXCEPT ![p] = "pending"]
  /\ UNCHANGED <<shared, services, webhook>>

\* The awaits whose rejection is rethrown to the catch block of
\* processIncomingMessage, and the step of the pipeline each belongs to.
ThrowingAwaits ==
  [user_findUnique |-> "getOrCreateUser", user_create |-> "getOrCreateUser",
   user_update |-> "getOrCreateUser",
   conversation_findFirst |-> "getOrCreateConversation",
   conversation_update |-> "getOrCreateConversation",
   conversation_create |-> "getOrCreateConversation",
   message_create |-> "saveMessage", message_update |-> "saveMessage"]

\* A database or cache call rejects: the error is logged and rethrown, and
\* control passes to the catch block of processIncomingMessage.
Raise(p) ==
  /\ pc[p] \in DOMAIN ThrowingAwaits
  /\ thrown' = [thrown EXCEPT ![p] = ThrowingAwaits[pc[p]]]
  /\ Goto(p, "catch")
  /\ UNCHANGED <<webhook, services, now, calls, shared, messageData, user, conversation, savedMessage,
                 session, closing, step5, sends, outcome>>

\* ----------------------------------------------------------- getOrCreateUser

\* prisma.user.findUnique({ where: { phoneNumber } })
FindUser(p) ==
  /\ pc[p] = "user_findUnique"
  /\ LET contact == messageData[p].contact
         found == users[contact.phoneNumber]
     IN /\ user' = [user EXCEPT ![p] = found]
        /\ Goto(p, IF found = NoUser THEN "user_create"
                   ELSE IF Truthy(contact.name) /\ contact.name # found.name THEN "user_update"
                   ELSE "conversation_findFirst")
  /\ UNCHANGED <<webhook, services, now, calls, shared, messageData, conversation, savedMessage,
                 session, closing, step5, thrown, sends, outcome>>

\* The row prisma.user.create inserts.
NewUser(contact) == [phoneNumber |-> contact.phoneNumber, name |-> contact.name, language |-> DefaultLanguage]

\* prisma.user.create: phoneNumber is unique, so the insert of a second row
\* for the number is rejected.
CreateUser(p) ==
  /\ pc[p] = "user_create"
  /\ LET contact == messageData[p].contact
     IN IF users[contact.phoneNumber] # NoUser
        THEN /\ thrown' = [thrown EXCEPT ![p] = "getOrCreateUser"]
             /\ Goto(p, "catch")
             /\ UNCHANGED <<users, user>>
        ELSE /\ users' = [users EXCEPT ![contact.phoneNumber] = NewUser(contact)]
             /\ user' = [user EXCEPT ![p] = NewUser(contact)]
             /\ Goto(p, "conversation_findFirst")
             /\ UNCHANGED thrown
  /\ UNCHANGED <<webhook, services, now, calls, conversations, messages, tickets, sessions, messageData,
                 conversation, savedMessage, session, closing, step5, sends, outcome>>

\* prisma.user.update({ where: { id }, data: { name } }) returns the row
UpdateUserName(p) ==
  /\ pc[p] = "user_update"
  /\ LET contact == messageData[p].contact
         row == [users[contact.phoneNumber] EXCEPT !.name = contact.name]
     IN /\ users' = [users EXCEPT ![contact.phoneNumber] = row]
        /\ user' = [user EXCEPT ![p] = row]
  /\ Goto(p, "conversation_findFirst")
  /\ UNCHANGED <<webhook, services, now, calls, conversations, messages, tickets, sessions, messageData,
                 conversation, savedMessage, session, closing, step5, thrown, sends, outcome>>

\* --------------------------------------------------- getOrCreateConversation

ActiveConversations(userId) == {i \in DOMAIN conversations : conversations[i].userId = userId /\ conversations[i].status = "ACTIVE"}

\* findFirst({ where: { userId, status: 'ACTIVE' }, orderBy: { startedAt: 'desc' } }):
\* the rows it may return (any of the latest ones)
FindFirstActive(userId) == {i \in ActiveConversations(userId) : \A j \in ActiveConversations(userId) : conversations[j].startedAt <= conversations[i].startedAt}

\* A staleness test that already fires at the maximum duration.
IsStaleAtMaximum(conv, t) == t - conv.startedAt >= MaxConversationDuration * MsPerSecond

\* conversationAge > this.maxConversationDuration * 1000
IsStale(conv, t) == t - conv.startedAt > MaxConversationDuration * MsPerSecond

\* A closing that stamps endedAt and leaves the status as it is.
EndedByStampOnly(conv, t) == [conv EXCEPT !.endedAt = t]

\* data: { status: 'ENDED', endedAt: now }
Ended(conv, t) == [conv EXCEPT !.status = "ENDED", !.endedAt = t]

\* The row prisma.conversation.create inserts (startedAt defaults to now()).
NewConversation(userId, t) == [userId |-> userId, status |-> "ACTIVE", startedAt |-> t, endedAt |-> NoTime]

\* findFirst, then the staleness check
FindConversation(p) ==
  /\ pc[p] = "conversation_findFirst"
  /\ LET found == FindFirstActive(user[p].phoneNumber)
     IN IF found = {}
        THEN /\ conversation' = [conversation EXCEPT ![p] = NoId]
             /\ Goto(p, "conversation_create")
             /\ UNCHANGED closing
        ELSE \E id \in found :
               /\ conversation' = [conversation EXCEPT ![p] = id]
               /\ IF IsStale(conversations[id], now)
                  THEN /\ closing' = [closing EXCEPT ![p] = [id |-> id, at |-> now]]
                       /\ Goto(p, "conversation_update")
                  ELSE /\ Goto(p, "message_create")
                       /\ UNCHANGED closing
  /\ UNCHANGED <<webhook, services, now, calls, shared, messageData, user, savedMessage, session, step5,
                 thrown, sends, outcome>>

\* prisma.conversation.update of the stale conversation; conversation = null
EndConversation(p) ==
  /\ pc[p] = "conversation_update"
  /\ conversations' = [conversations EXCEPT ![closing[p].id] = Ended(@, closing[p].at)]
  /\ conversation' = [conversation EXCEPT ![p] = NoId]
  /\ Goto(p, "conversation_create")
  /\ UNCHANGED <<webhook, services, now, calls, users, messages, tickets, sessions, messageData, user,
                 savedMessage, session, closing, step5, thrown, sends, outcome>>

\* An insert that does nothing when the user already has an ACTIVE row.
InsertedUnlessActive(rows, userId, t) == IF \E i \in DOMAIN rows : rows[i].userId = userId /\ rows[i].status = "ACTIVE" THEN rows ELSE Append(rows, NewConversation(userId, t))

\* The table after prisma.conversation.create({ data: { userId, status: 'ACTIVE' } })
Inserted(rows, userId, t) == Append(rows, NewConversation(userId, t))

\* prisma.conversation.create
CreateConversation(p) ==
  /\ pc[p] = "conversation_create"
  /\ conversations' = Inserted(conversations, user[p].phoneNumber, now)
  /\ conversation' = [conversation EXCEPT ![p] = Len(conversations) + 1]
  /\ Goto(p, "message_create")
  /\ UNCHANGED <<webhook, services, now, calls, users, messages, tickets, sessions, messageData, user,
                 savedMessage, session, closing, step5, thrown, sends, outcome>>

\* --------------------------------------------------------------- saveMessage

\* A step 3 that inserts nothing and leaves the row for later.
CreateMessageLater(p) ==
  /\ pc[p] = "message_create"
  /\ Goto(p, "getSession")
  /\ UNCHANGED <<webhook, services, now, calls, shared, messageData, user,
                 conversation, savedMessage, session, closing, step5, thrown, sends, outcome>>

\* A saveMessage that keeps one row for each provider message id: a second
\* event with the id of a stored row is attached to that row.
CreateMessageOnce(p) ==
  /\ pc[p] = "message_create"
  /\ LET seen == {i \in DOMAIN messages : messages[i].whatsappMessageId = messageData[p].messageId}
     IN IF seen = {}
        THEN /\ messages' = Append(messages, [conversationId |-> conversation[p], whatsappMessageId |-> messageData[p].messageId, direction |-> "INCOMING", processed |-> FALSE])
             /\ savedMessage' = [savedMessage EXCEPT ![p] = Len(messages) + 1]
        ELSE /\ messages' = messages
             /\ savedMessage' = [savedMessage EXCEPT ![p] = CHOOSE i \in seen : TRUE]
  /\ Goto(p, "message_update")
  /\ UNCHANGED <<webhook, services, now, calls, users, conversations, tickets, sessions, messageData, user,
                 conversation, session, closing, step5, thrown, sends, outcome>>

\* prisma.message.create (processed: false)
CreateMessage(p) ==
  /\ pc[p] = "message_create"
  /\ messages' = Append(messages, [conversationId |-> conversation[p], whatsappMessageId |-> messageData[p].messageId, direction |-> "INCOMING", processed |-> FALSE])
  /\ savedMessage' = [savedMessage EXCEPT ![p] = Len(messages) + 1]
  /\ Goto(p, "message_update")
  /\ UNCHANGED <<webhook, services, now, calls, users, conversations, tickets, sessions, messageData, user,
                 conversation, session, closing, step5, thrown, sends, outcome>>

\* prisma.message.update (processed: true)
MarkProcessed(p) ==
  /\ pc[p] = "message_update"
  /\ messages' = [messages EXCEPT ![savedMessage[p]].processed = TRUE]
  /\ Goto(p, "getSession")
  /\ UNCHANGED <<webhook, services, now, calls, users, conversations, tickets, sessions, messageData, user,
                 conversation, savedMessage, session, closing, step5, thrown, sends, outcome>>

\* ------------------------------------------------- step 4: the session context

\* The session the call starts from when the store has none.
FreshSession(conversationId, language, t) == [conversationId |-> conversationId, language |-> language, context |-> EmptyContext, lastActivity |-> t, status |-> Null]

\* What SessionService.getSession may return: the stored value while its TTL
\* runs, or null (a miss, or an error that CacheService.get turns into null).
StoredSessions(userId, t) == IF sessions[userId].expiresAt # NoTime /\ t < sessions[userId].expiresAt THEN {sessions[userId].data, NoSession} ELSE {NoSession}

\* sessionService.getSession(user.id) || { conversationId, language, context, lastActivity }
GetSession(p) ==
  /\ pc[p] = "getSession"
  /\ \E stored \in StoredSessions(user[p].phoneNumber, now) :
       session' = [session EXCEPT ![p] = IF stored = NoSession THEN FreshSession(conversation[p], user[p].language, now) ELSE stored]
  /\ Goto(p, "dispatch")
  /\ UNCHANGED <<webhook, services, now, calls, shared, messageData, user, conversation, savedMessage,
                 closing, step5, thrown, sends, outcome>>

\* ------------------------------------------------ step 5: the type handlers

\* The switch on messageData.messageType and the handler it awaits.  An
\* error of the handler passes control to the catch block.
Dispatch(p, P) ==
  /\ pc[p] = "dispatch"
  /\ \E pl \in P :
       \E o \in ProcessByType(Work(user[p], session[p], now, Cardinality(TicketsOf(tickets, user[p].phoneNumber))), pl) :
         /\ payload' = [payload EXCEPT ![p] = pl]
         /\ user' = [user EXCEPT ![p] = o.work.user]
         /\ session' = [session EXCEPT ![p] = o.work.session]
         /\ trail' = [trail EXCEPT ![p] = o.work.trail]
         /\ nlpResult' = [nlpResult EXCEPT ![p] = o.work.nlpResult]
         /\ kbResult' = [kbResult EXCEPT ![p] = o.work.kbResult]
         /\ aiResponse' = [aiResponse EXCEPT ![p] = o.work.aiResponse]
         /\ users' = IF o.work.dbLanguage = Null THEN users
                     ELSE [users EXCEPT ![user[p].phoneNumber].language = o.work.dbLanguage]
         /\ tickets' = IF o.work.ticketCreated THEN Append(tickets, NewTicket(user[p].phoneNumber, now))
                       ELSE tickets
         /\ response' = [response EXCEPT ![p] = o.response]
         /\ thrown' = [thrown EXCEPT ![p] = IF o.thrown THEN "handler" ELSE Null]
         /\ Goto(p, IF o.thrown THEN "catch" ELSE "sendResponse")
  /\ UNCHANGED <<webhook, services, now, calls, conversations, messages, sessions, messageData, conversation,
                 savedMessage, closing, sends, outcome>>

\* ------------------------------------------------------ step 6: sendResponse

\* One attempt to send a message with the WhatsApp API.
SendAttempt(to, message, delivered) == [to |-> to, message |-> message, delivered |-> delivered]

\* if (response) await this.sendResponse(user.phoneNumber, response, user.language)
SendResponse(p) ==
  /\ pc[p] = "sendResponse"
  /\ IF response[p] = NoResponse
     THEN /\ Goto(p, "setSession")
          /\ UNCHANGED <<sends, thrown>>
     ELSE \E delivered \in BOOLEAN :
            /\ sends' = [sends EXCEPT ![p] = Append(@, SendAttempt(user[p].phoneNumber, response[p], delivered))]
            /\ thrown' = [thrown EXCEPT ![p] = IF delivered THEN Null ELSE "sendResponse"]
            /\ Goto(p, IF delivered THEN "setSession" ELSE "catch")
  /\ UNCHANGED <<webhook, services, now, calls, shared, messageData, user, conversation, savedMessage,
                 session, closing, step5, outcome>>

\* ------------------------------------------------------- step 7: the session

\* A write-back that leaves lastActivity as it was read.
Untouched(s, t) == s

\* session.lastActivity = Date.now()
Touched(s, t) == [s EXCEPT !.lastActivity = t]

\* The entry cache.set(key, sessionData, sessionTTL) leaves in the store.
StoredEntry(s, t) == [data |-> s, expiresAt |-> t + SessionTTL * MsPerSecond]

\* A write-back that keeps a pending handoff the stored session has.
SetSessionMerged(p) ==
  /\ pc[p] = "setSession"
  /\ session' = [session EXCEPT ![p] = Touched(@, now)]
  /\ \E stored \in BOOLEAN :
       IF stored
       THEN /\ sessions' = [sessions EXCEPT ![user[p].phoneNumber] =
                              StoredEntry(IF @.data.context.pendingHandoff THEN [Touched(session[p], now) EXCEPT !.context = sessions[user[p].phoneNumber].data.context]
                                          ELSE Touched(session[p], now), now)]
            /\ outcome' = [outcome EXCEPT ![p] = "resolved"]
            /\ Goto(p, "done")
            /\ UNCHANGED thrown
       ELSE /\ thrown' = [thrown EXCEPT ![p] = "setSession"]
            /\ Goto(p, "catch")
            /\ UNCHANGED <<sessions, outcome>>
  /\ UNCHANGED <<webhook, services, now, calls, users, conversations, messages, tickets, messageData, user,
                 conversation, savedMessage, closing, step5, sends>>

\* session.lastActivity = Date.now(); await sessionService.setSession(user.id, session)
\* CacheService.set rethrows its error, which passes control to the catch block.
SetSession(p) ==
  /\ pc[p] = "setSession"
  /\ session' = [session EXCEPT ![p] = Touched(@, now)]
  /\ \E stored \in BOOLEAN :
       IF stored
       THEN /\ sessions' = [sessions EXCEPT ![user[p].phoneNumber] = StoredEntry(Touched(session[p], now), now)]
            /\ outcome' = [outcome EXCEPT ![p] = "resolved"]
            /\ Goto(p, "done")
            /\ UNCHANGED thrown
       ELSE /\ thrown' = [thrown EXCEPT ![p] = "setSession"]
            /\ Goto(p, "catch")
            /\ UNCHANGED <<sessions, outcome>>
  /\ UNCHANGED <<webhook, services, now, calls, users, conversations, messages, tickets, messageData, user,
                 conversation, savedMessage, closing, step5, sends>>

\* ----------------------------------------------------------- the catch block

\* A catch block without the inner try: the error of the error-message send
\* leaves processIncomingMessage.
CatchOutcomeRethrown(delivered) == IF delivered THEN "resolved" ELSE "rejected"

\* What the promise of processIncomingMessage settles to after the catch
\* block: the error of the error-message send is caught and logged.
CatchOutcome(delivered) == "resolved"

\* A catch block that sends the error message a second time when the first
\* send fails.
ErrorAttemptsRetried(from, delivered) == IF delivered THEN <<SendAttempt(from, TextResponse(GetErrorMessage(DefaultLanguage)), TRUE)>> ELSE <<SendAttempt(from, TextResponse(GetErrorMessage(DefaultLanguage)), FALSE), SendAttempt(from, TextResponse(GetErrorMessage(DefaultLanguage)), FALSE)>>

\* The sends of the catch block: sendTextMessage(messageData.from, getErrorMessage(defaultLanguage))
ErrorAttempts(from, delivered) == <<SendAttempt(from, TextResponse(GetErrorMessage(DefaultLanguage)), delivered)>>

\* The catch block: one sendTextMessage(messageData.from, getErrorMessage(defaultLanguage))
CatchBlock(p) ==
  /\ pc[p] = "catch"
  /\ \E delivered \in BOOLEAN :
       /\ sends' = [sends EXCEPT ![p] = @ \o ErrorAttempts(messageData[p].from, delivered)]
       /\ outcome' = [outcome EXCEPT ![p] = CatchOutcome(delivered)]
  /\ Goto(p, "done")
  /\ UNCHANGED <<webhook, services, now, calls, shared, messageData, user, conversation, savedMessage,
                 session, closing, step5, thrown>>

\* ------------------------------------------------------------ POST /webhook

\* The handler of POST /webhook for a whatsapp_business_account body, in the
\* order of its statements: the loops that call processWebhookChange for the
\* changes of field 'messages', the response, the await of the promises.
PostHandlerSettlesFirst == <<"processWebhookChange", "allSettled", "respond">>
PostHandler == <<"processWebhookChange", "respond", "allSettled">>

HandlerReturned == webhook.step > Len(PostHandler)
\* The handler is at its await, or returned: the promises' continuations run.
Suspended == IF webhook.step \in 1..Len(PostHandler) THEN PostHandler[webhook.step] = "allSettled" ELSE HandlerReturned

FirstIn(seq, state) == IF \E i \in 1..Len(seq) : seq[i] = state THEN CHOOSE i \in 1..Len(seq) : seq[i] = state /\ \A j \in 1..(i - 1) : seq[j] # state ELSE 0

\* processWebhookChange from the top of its loops to its next await: the next
\* message is parsed and markMessageAsRead is called; with no message left the
\* next status update is logged by processMessageStatus, whose promise is
\* awaited; with nothing left the function returns.
Resumed(task) ==
  LET m == FirstIn(task.messages, "waiting")
      st == FirstIn(task.statuses, "waiting")
  IN IF m # 0 THEN [task EXCEPT !.messages[m] = "reading", !.awaiting = "markMessageAsRead"]
     ELSE IF st # 0 THEN [task EXCEPT !.statuses[st] = "processed", !.awaiting = "processMessageStatus"]
     ELSE [task EXCEPT !.promise = "fulfilled", !.awaiting = Null]

\* The catch block of processWebhookChange: the error is logged and rethrown.
Rejected(task) == [task EXCEPT !.promise = "rejected", !.awaiting = Null]

\* The call processWebhookChange(change.value), up to its first await.
Started(change) ==
  IF change.field # "messages" THEN NoTask
  ELSE Resumed([promise |-> "pending", messages |-> [i \in 1..change.messages |-> "waiting"], statuses |-> [i \in 1..change.statuses |-> "waiting"], awaiting |-> Null])

\* A request arrives: a body of another object is answered with 400.
PostWebhook ==
  /\ webhook.step = 0
  /\ \E body \in Deliveries :
       webhook' = IF body.object # "whatsapp_business_account"
                  THEN [webhook EXCEPT !.body = body, !.status = 400, !.step = Len(PostHandler) + 1]
                  ELSE [webhook EXCEPT !.body = body, !.step = 1]
  /\ UNCHANGED <<now, calls, shared, slots, services>>

\* The next statement of the handler; the await lets it pass once every
\* promise is settled.
PostHandlerStep ==
  /\ webhook.step \in 1..Len(PostHandler)
  /\ LET statement == PostHandler[webhook.step]
     IN CASE statement = "processWebhookChange" ->
               webhook' = [webhook EXCEPT !.tasks = [c \in 1..Len(webhook.body.changes) |-> Started(webhook.body.changes[c])], !.step = @ + 1]
          [] statement = "respond" ->
               webhook' = [webhook EXCEPT !.status = 200, !.step = @ + 1]
          [] statement = "allSettled" ->
               /\ \A c \in 1..Len(webhook.tasks) : webhook.tasks[c].promise # "pending"
               /\ webhook' = [webhook EXCEPT !.step = @ + 1]
  /\ UNCHANGED <<now, calls, shared, slots, services>>

\* await whatsappService.markMessageAsRead(message.id) settles: fulfilled,
\* processIncomingMessage is called; rejected (the error of the HTTP call is
\* rethrown), control passes to the catch block.
MarkMessageAsRead(c) ==
  /\ Suspended
  /\ webhook.tasks[c].awaiting = "markMessageAsRead"
  /\ LET task == webhook.tasks[c]
         m == FirstIn(task.messages, "reading")
     IN \E read \in BOOLEAN :
          webhook' = [webhook EXCEPT !.tasks[c] = IF read THEN [task EXCEPT !.messages[m] = "handling", !.awaiting = "processIncomingMessage"]
                                                   ELSE Rejected([task EXCEPT !.messages[m] = "failed"])]
  /\ UNCHANGED <<now, calls, shared, slots, services>>

\* await messageProcessor.processIncomingMessage(parsedMessage) settles, as
\* its catch block makes it, with or without the error message delivered.
MessageSettled(c) ==
  /\ Suspended
  /\ webhook.tasks[c].awaiting = "processIncomingMessage"
  /\ LET task == webhook.tasks[c]
         m == FirstIn(task.messages, "handling")
     IN \E delivered \in BOOLEAN :
          webhook' = [webhook EXCEPT !.tasks[c] = IF CatchOutcome(delivered) = "resolved" THEN Resumed([task EXCEPT !.messages[m] = "processed"])
                                                   ELSE Rejected([task EXCEPT !.messages[m] = "failed"])]
  /\ UNCHANGED <<now, calls, shared, slots, services>>

\* await messageProcessor.processMessageStatus(status) settles: it never rejects.
StatusSettled(c) ==
  /\ Suspended
  /\ webhook.tasks[c].awaiting = "processMessageStatus"
  /\ webhook' = [webhook EXCEPT !.tasks[c] = Resumed(@)]
  /\ UNCHANGED <<now, calls, shared, slots, services>>

\* One continuation of the promise of change c.
ProcessWebhookChange(c) ==
  \/ MarkMessageAsRead(c)
  \/ MessageSettled(c)
  \/ StatusSettled(c)

\* --------------------------------------------- calls made to NLPService

\* The log after a call: its latest LogLength entries.
Logged(entry) == log' = IF Len(log) < LogLength THEN Append(log, entry) ELSE Append(Tail(log), entry)

\* The texts analyzeIntent is called with, and the seconds between calls.
IntentTexts == {"Bonjour", "Quel temps ?"}
NlpPauses == {1799, 1800}

\* A caller awaits nlpService.analyzeIntent(text, language).
AnalyzeIntentCall ==
  /\ calls < MaxCalls
  /\ calls' = calls + 1
  /\ \E text \in IntentTexts, language \in SupportedLanguages, pause \in NlpPauses :
       LET t == now + pause * MsPerSecond
       IN \E run \in AnalyzeIntentRuns(text, language, t, cache) :
            /\ now' = t
            /\ cache' = run.cache
            /\ Logged([op |-> "analyzeIntent", text |-> text, language |-> language, at |-> t,
                       result |-> run.result, thrown |-> run.thrown, answer |-> run.answer,
                       modelCalls |-> run.modelCalls, hit |-> run.hit,
                       readFailed |-> run.readFailed, stored |-> run.stored])
  /\ UNCHANGED <<shared, knowledgeBase, slots, webhook>>

\* The texts detectLanguage is called with: one the quick detection
\* decides, two it leaves to the hosted model.
LanguageTexts == {"Bonjour", "Je veux un agent", "Hola, buenos dias"}

\* A caller awaits nlpService.detectLanguage(text).
DetectLanguageCall ==
  /\ calls < MaxCalls
  /\ calls' = calls + 1
  /\ \E text \in LanguageTexts, pause \in NlpPauses :
       LET t == now + pause * MsPerSecond
       IN \E run \in DetectLanguageRuns(text, t, cache) :
            /\ now' = t
            /\ cache' = run.cache
            /\ Logged([op |-> "detectLanguage", text |-> text, at |-> t, result |-> run.result,
                       modelCalls |-> run.modelCalls, hit |-> run.hit,
                       readFailed |-> run.readFailed, stored |-> run.stored])
  /\ UNCHANGED <<shared, knowledgeBase, slots, webhook>>

\* ------------------------------------- calls made to KnowledgeBaseService

\* The queries search is called with (null, blank, one keyword, a sentence,
\* a text that matches no entry), and the seconds between calls.
SearchQueries == {Null, "   ", "horaires", "Vos horaires svp", "merci"}
KbPauses == {0, 1800}

\* A caller awaits knowledgeBaseService.search(query, language).
SearchCall ==
  /\ calls < MaxCalls
  /\ calls' = calls + 1
  /\ \E query \in SearchQueries, language \in SupportedLanguages, pause \in KbPauses :
       LET t == now + pause * MsPerSecond
       IN \E run \in SearchRuns(knowledgeBase, query, language, SearchLimit, t, cache) :
            /\ now' = t
            /\ cache' = run.cache
            /\ Logged([op |-> "search", query |-> query, language |-> language, at |-> t,
                       result |-> run.result, thrown |-> run.thrown, ranked |-> run.ranked,
                       failed |-> run.failed, caught |-> run.caught])
  /\ UNCHANGED <<shared, knowledgeBase, slots, webhook>>

\* A caller awaits knowledgeBaseService.incrementUsage(id): the update of a
\* row that exists and the cache del may each fail; every error is logged
\* and swallowed.
IncrementUsageCall ==
  /\ calls < MaxCalls
  /\ calls' = calls + 1
  /\ \E id \in 1..(Len(knowledgeBase) + 1), updateFails \in BOOLEAN, delFails \in BOOLEAN :
       LET updated == id \in DOMAIN knowledgeBase /\ ~updateFails
       IN /\ knowledgeBase' = IF updated THEN [knowledgeBase EXCEPT ![id].usageCount = @ + 1] ELSE knowledgeBase
          /\ cache' = IF updated /\ ~delFails THEN CacheDel(cache, "kb:entry:" \o ToString(id)) ELSE cache
          /\ Logged([op |-> "incrementUsage", id |-> id, updated |-> updated, thrown |-> FALSE])
  /\ UNCHANGED <<now, shared, slots, webhook>>

\* -------------------------------------------- calls made to TicketService

Agent == "agent-1"

\* The Ticket rows of a database in use: a ticket of the first user that an
\* agent resolved at time 0, and an open ticket of the second user.
SeededTickets == <<StatusUpdate(NewTicket("221770000001", 0), "RESOLVED", Agent, 0), NewTicket("221770000002", 0)>>

\* What createTicket is called with: title, description and language.
TicketDrafts ==
  { [title |-> "URGENT", description |-> "Connexion impossible, vite", language |-> "fr"],
    [title |-> "Aide", description |-> "  ", language |-> "fr"] }

\* The statuses updateTicketStatus is called with, the filters and page
\* sizes getUserTickets is called with, and the seconds that pass before a
\* read or an automatic close (a write follows the call before it at once).
TargetStatuses == {"IN_PROGRESS", "RESOLVED", "FOO"}
ListFilters == {<<Null, StatusCheckLimit>>, <<Null, DefaultTicketLimit>>, <<"OPEN", DefaultTicketLimit>>}
TicketPauses == {0, 300}

\* The ids calls are made with: those of the rows, and one of no row.
TicketIds == 1..(Len(tickets) + 1)

\* createTicket (TICKET_AUTO_ASSIGN is not set).  The create and the cache
\* del may each fail.
CreateTicketCall ==
  /\ calls < MaxOps
  /\ calls' = calls + 1
  /\ \E userId \in Phones, draft \in TicketDrafts, fails \in {"none", "create", "del"} :
       LET t == now
           text == draft.title \o " " \o draft.description
           invalid == ~Truthy(draft.title) \/ Trim(draft.title) = "" \/ ~Truthy(draft.description) \/ Trim(draft.description) = ""
           created == ~invalid /\ fails # "create"
           entry == [op |-> "createTicket", userId |-> userId, at |-> t, text |-> text, language |-> draft.language,
                     priority |-> IF invalid THEN Null ELSE DeterminePriority(text, draft.language),
                     ticketId |-> IF created THEN Len(tickets) + 1 ELSE NoId,
                     thrown |-> IF invalid THEN "ValidationError" ELSE IF fails = "none" THEN Null ELSE "Error"]
       IN /\ now' = t
          /\ tickets' = IF created THEN Append(tickets, NewTicket(userId, t)) ELSE tickets
          /\ cache' = IF created /\ fails = "none" THEN CacheDel(cache, UserTicketsKey(userId)) ELSE cache
          /\ Logged(entry)
  /\ UNCHANGED <<users, conversations, messages, sessions, knowledgeBase, slots, webhook>>

\* getTicketById.  A cached copy is returned as it is; a failed cache read
\* is a miss; the query or the cache write may fail, and the call rethrows.
GetTicketByIdCall ==
  /\ calls < MaxOps
  /\ calls' = calls + 1
  /\ \E ticketId \in TicketIds, userId \in {Null} \cup Phones, pause \in TicketPauses, fails \in {"none", "get", "find or set"} :
       LET t == now + pause * MsPerSecond
           cacheKey == TicketKey(ticketId)
           hit == CacheHas(cache, cacheKey, t) /\ fails # "get"
           found == ticketId \in DOMAIN tickets /\ (~Truthy(userId) \/ tickets[ticketId].userId = userId)
           error == IF hit THEN Null
                    ELSE IF fails = "find or set" THEN "Error"
                    ELSE IF ~found THEN "NotFoundError" ELSE Null
           entry == [op |-> "getTicketById", ticketId |-> ticketId, userId |-> userId, at |-> t, hit |-> hit, thrown |-> error,
                     result |-> IF error # Null THEN NoTicket ELSE IF hit THEN cache[cacheKey].value ELSE TicketCopy(tickets, ticketId)]
       IN /\ fails = "get" => CacheHas(cache, cacheKey, t)
          /\ now' = t
          /\ cache' = IF ~hit /\ error = Null THEN CacheSet(cache, cacheKey, TicketCopy(tickets, ticketId), TicketCacheTTL, t) ELSE cache
          /\ Logged(entry)
  /\ UNCHANGED <<shared, knowledgeBase, slots, webhook>>

\* getUserTickets.  A cached list, empty or not, is returned as it is.
GetUserTicketsCall ==
  /\ calls < MaxOps
  /\ calls' = calls + 1
  /\ \E userId \in Phones, filter \in ListFilters, pause \in TicketPauses, fails \in {"none", "get", "find or set"} :
       LET t == now + pause * MsPerSecond
           status == filter[1]
           limit == filter[2]
           cacheKey == UserTicketsListKey(userId, status, limit, 0)
           hit == CacheHas(cache, cacheKey, t) /\ fails # "get"
           found == FindUserTickets(tickets, userId, status, limit, 0)
           error == IF ~hit /\ fails = "find or set" THEN "Error" ELSE Null
           entry == [op |-> "getUserTickets", userId |-> userId, status |-> status, limit |-> limit, offset |-> 0, at |-> t,
                     hit |-> hit, thrown |-> error,
                     result |-> IF error # Null THEN << >> ELSE IF hit THEN cache[cacheKey].value ELSE found]
       IN /\ fails = "get" => CacheHas(cache, cacheKey, t)
          /\ now' = t
          /\ cache' = IF ~hit /\ error = Null THEN CacheSet(cache, cacheKey, found, TicketCacheTTL, t) ELSE cache
          /\ Logged(entry)
  /\ UNCHANGED <<shared, knowledgeBase, slots, webhook>>

\* The two cache dels that follow the update of a ticket's row: either may
\* fail, and the first failure ends the call.
Invalidated(c, ticketId, userId, fails) ==
  IF fails = "del ticket" THEN c
  ELSE IF fails = "del list" THEN CacheDel(c, TicketKey(ticketId))
  ELSE CacheDel(CacheDel(c, TicketKey(ticketId)), UserTicketsKey(userId))

\* updateTicketStatus.  The update fails for an id of no row.
UpdateTicketStatusCall ==
  /\ calls < MaxOps
  /\ calls' = calls + 1
  /\ \E ticketId \in TicketIds, newStatus \in TargetStatuses, fails \in {"none", "update", "del ticket", "del list"} :
       LET t == now
           agentId == Null
           invalid == newStatus \notin ValidStatuses
           updated == ~invalid /\ ticketId \in DOMAIN tickets /\ fails # "update"
           entry == [op |-> "updateTicketStatus", ticketId |-> ticketId, newStatus |-> newStatus, agentId |-> agentId, at |-> t,
                     thrown |-> IF invalid THEN "ValidationError" ELSE IF updated /\ fails = "none" THEN Null ELSE "Error"]
       IN /\ now' = t
          /\ tickets' = IF updated THEN [tickets EXCEPT ![ticketId] = StatusUpdate(@, newStatus, agentId, t)] ELSE tickets
          /\ cache' = IF updated THEN Invalidated(cache, ticketId, tickets[ticketId].userId, fails) ELSE cache
          /\ Logged(entry)
  /\ UNCHANGED <<users, conversations, messages, sessions, knowledgeBase, slots, webhook>>

\* assignTicket
AssignTicketCall ==
  /\ calls < MaxOps
  /\ calls' = calls + 1
  /\ \E ticketId \in TicketIds, fails \in {"none", "update", "del ticket", "del list"} :
       LET t == now
           updated == ticketId \in DOMAIN tickets /\ fails # "update"
           entry == [op |-> "assignTicket", ticketId |-> ticketId, agentId |-> Agent, at |-> t,
                     thrown |-> IF updated /\ fails = "none" THEN Null ELSE "Error"]
       IN /\ now' = t
          /\ tickets' = IF updated THEN [tickets EXCEPT ![ticketId] = Assignment(@, Agent, t)] ELSE tickets
          /\ cache' = IF updated THEN Invalidated(cache, ticketId, tickets[ticketId].userId, fails) ELSE cache
          /\ Logged(entry)
  /\ UNCHANGED <<users, conversations, messages, sessions, knowledgeBase, slots, webhook>>

\* autoCloseResolvedTickets: one updateMany, no cache call; 0 on any error.
AutoCloseResolvedTicketsCall ==
  /\ calls < MaxOps
  /\ calls' = calls + 1
  /\ \E pause \in TicketPauses, updateFails \in BOOLEAN :
       LET t == now + pause * MsPerSecond
           closed == IF updateFails THEN {} ELSE {i \in DOMAIN tickets : AutoClosable(tickets[i], t)}
       IN /\ now' = t
          /\ tickets' = [i \in DOMAIN tickets |-> IF i \in closed THEN AutoClosed(tickets[i], t) ELSE tickets[i]]
          /\ Logged([op |-> "autoCloseResolvedTickets", at |-> t, closed |-> closed, count |-> Cardinality(closed), thrown |-> Null])
  /\ UNCHANGED <<users, conversations, messages, sessions, knowledgeBase, cache, slots, webhook>>

\* ------------------------------------------------ calls of determinePriority

\* The words the texts given to determinePriority are made of: urgent and
\* high-priority keywords of both languages, in either case, and a word that
\* is no keyword.
PriorityWords == {"URGENT", "panne", "ne fonctionne pas", "vite", "Bug", "broken", "fast", "bonjour"}

\* A caller evaluates ticketService.determinePriority(text, language).
DeterminePriorityCall ==
  /\ calls < MaxCalls
  /\ calls' = calls + 1
  /\ \E first \in PriorityWords, second \in PriorityWords, language \in SupportedLanguages :
       LET text == first \o " " \o second
       IN Logged([op |-> "determinePriority", text |-> text, language |-> language, priority |-> DeterminePriority(text, language)])
  /\ UNCHANGED <<now, shared, knowledgeBase, cache, slots, webhook>>

\* ------------------------------------------------ calls of extractTicketInfo

\* The messages extractTicketInfo is called with: with and without
\* separators and trigger keywords, short and long, blank.
TicketTexts ==
  { "Login broken: cannot sign in since yesterday",
    "bug: app",
    "help",
    "   ",
    "Nouveau ticket  Imprimante - ne marche plus\ndepuis lundi",
    "Open Ticket: printer jam on floor two",
    "a b c d e f g h i j k",
    "the international invoice I received yesterday afternoon shows an amount that is wrong",
    "My invoice for the month of March shows twice the amount that was agreed in the contract we signed last year: please fix",
    "aide -  - facture" }

\* A caller evaluates extractTicketInfo(text, language).
ExtractTicketInfoCall ==
  /\ calls < MaxCalls
  /\ calls' = calls + 1
  /\ \E text \in TicketTexts, language \in SupportedLanguages :
       LET info == ExtractTicketInfo(text, language)
       IN Logged([op |-> "extractTicketInfo", text |-> text, language |-> language, title |-> info.title, description |-> info.description])
  /\ UNCHANGED <<now, shared, knowledgeBase, cache, slots, webhook>>

\* ---------------------------------------------- calls of analyzeTicketIntent

\* The messages analyzeTicketIntent is called with: status requests, creation
\* requests, and messages about neither.
TicketIntentTexts ==
  { "ticket status", "Where are my tickets?", "Mes tickets", "Please CHECK TICKET 12",
    "Je veux créer un ticket", "open ticket please", "new ticket: printer",
    "Bonjour", "statut de ma commande", "my invoice is wrong" }

\* A caller evaluates analyzeTicketIntent(text, language).
AnalyzeTicketIntentCall ==
  /\ calls < MaxCalls
  /\ calls' = calls + 1
  /\ \E text \in TicketIntentTexts, language \in SupportedLanguages :
       LET result == AnalyzeTicketIntent(text, language)
       IN Logged([op |-> "analyzeTicketIntent", text |-> text, language |-> language, intent |-> result.intent, confidence |-> result.confidence])
  /\ UNCHANGED <<now, shared, knowledgeBase, cache, slots, webhook>>

\* ------------------------------------------------------------ specifications

\* One step of the call in slot p between its awaits.
Pipeline(p) ==
  \/ FindUser(p)
  \/ CreateUser(p)
  \/ UpdateUserName(p)
  \/ FindConversation(p)
  \/ EndConversation(p)
  \/ CreateConversation(p)
  \/ CreateMessage(p)
  \/ MarkProcessed(p)
  \/ GetSession(p)
  \/ SendResponse(p)
  \/ SetSession(p)
  \/ Raise(p)
  \/ CatchBlock(p)

\* One step of the call in slot p, whose event is one of E with a payload
\* of P.
Step(p, E, P) ==
  \/ ProcessIncomingMessage(p, E)
  \/ Dispatch(p, P)
  \/ Pipeline(p)

\* The webhook hands its messages to processIncomingMessage one at a time,
\* each awaited before the next.
Next == Step(1, Envelopes, PlainPayloads)

Spec == Init /\ [][Next]_vars

\* A user who opened a conversation, wrote again 45 minutes later and is about
\* to write once more: one User row, the ACTIVE conversation of the first
\* message, the two Message rows, and the session as the second call stored it.
Returning == Envelope("221770000001", Null, "wamid.A").contact
LastSeen == 45 * 60 * MsPerSecond
ReturningInit ==
  /\ now = LastSeen
  /\ calls = 0
  /\ users = [ph \in Phones |-> IF ph = Returning.phoneNumber THEN NewUser(Returning) ELSE NoUser]
  /\ conversations = <<NewConversation(Returning.phoneNumber, 0)>>
  /\ messages = [i \in 1..2 |-> [conversationId |-> 1, whatsappMessageId |-> "wamid.0", direction |-> "INCOMING", processed |-> TRUE]]
  /\ tickets = << >>
  /\ sessions = [ph \in Phones |-> IF ph = Returning.phoneNumber THEN StoredEntry(Touched(FreshSession(1, DefaultLanguage, 0), LastSeen), LastSeen)
                                   ELSE [data |-> NoSession, expiresAt |-> NoTime]]
  /\ knowledgeBase = SeededEntries
  /\ cache = NoKeys
  /\ log = << >>
  /\ webhook = NoWebhook
  /\ IdleSlots

ReturningSpec == ReturningInit /\ [][Next]_vars

\* One user's messages, one at a time, up to the first text message.
DialogueNext ==
  \/ payload[1].messageType # "text" /\ ProcessIncomingMessage(1, DialogueEnvelopes)
  \/ Dispatch(1, Openers \cup DialoguePayloads)
  \/ Pipeline(1)

DialogueSpec == Init /\ [][DialogueNext]_vars

\* Two webhook deliveries for one user are served at once: their calls
\* interleave at every await.
RaceNext == \E p \in Slots : Step(p, RaceEnvelopes, RacePayloads)

RaceSpec == Init /\ [][RaceNext]_vars

\* One user answers the bot's menus, one reply at a time.
InteractionNext ==
  \/ ProcessIncomingMessage(1, DialogueEnvelopes)
  \/ Dispatch(1, InteractionPayloads)
  \/ Pipeline(1)

InteractionSpec == Init /\ [][InteractionNext]_vars

\* Two deliveries for one user are served at once, and one of the messages
\* may ask for an agent.
HandoffRaceNext == \E p \in Slots : Step(p, RaceEnvelopes, HandoffRacePayloads)

HandoffRaceSpec == Init /\ [][HandoffRaceNext]_vars

\* One user writes and answers the bot's menus, one message at a time, up to
\* the first text message.
AnswerNext ==
  \/ payload[1].messageType # "text" /\ ProcessIncomingMessage(1, DialogueEnvelopes)
  \/ Dispatch(1, DialoguePayloads \cup InteractionPayloads)
  \/ Pipeline(1)

AnswerSpec == Init /\ [][AnswerNext]_vars

\* One delivery of the provider: its changes are processed side by side.
WebhookNext ==
  \/ PostWebhook
  \/ PostHandlerStep
  \/ \E c \in 1..Len(webhook.tasks) : ProcessWebhookChange(c)

WebhookSpec == Init /\ [][WebhookNext]_vars

\* The same delivery when every awaited call settles and the event loop runs
\* each continuation that is ready.
WebhookLiveSpec ==
  /\ Init /\ [][WebhookNext]_vars
  /\ WF_vars(PostHandlerStep)
  /\ \A c \in 1..MaxChanges : WF_vars(c \in 1..Len(webhook.tasks) /\ ProcessWebhookChange(c))

\* The intent classifier is called on its own, one call at a time.
NlpNext == AnalyzeIntentCall

NlpSpec == Init /\ [][NlpNext]_vars

\* The language detector is called on its own, one call at a time.
LanguageNext == DetectLanguageCall

LanguageSpec == Init /\ [][LanguageNext]_vars

\* The knowledge base is searched and its counters updated, one call at a
\* time.
KbNext ==
  \/ SearchCall
  \/ IncrementUsageCall

KbSpec == Init /\ [][KbNext]_vars

\* The ticket service of a running server, one call at a time, on a
\* database that holds tickets, a week and more after one was resolved.
TicketInit ==
  /\ now = AutoCloseDelay
  /\ calls = 0
  /\ users = [ph \in Phones |-> NewUser([phoneNumber |-> ph, name |-> Null])]
  /\ conversations = << >>
  /\ messages = << >>
  /\ tickets = SeededTickets
  /\ sessions = [ph \in Phones |-> [data |-> NoSession, expiresAt |-> NoTime]]
  /\ knowledgeBase = SeededEntries
  /\ cache = NoKeys
  /\ log = << >>
  /\ webhook = NoWebhook
  /\ IdleSlots

TicketNext ==
  \/ CreateTicketCall
  \/ GetTicketByIdCall
  \/ GetUserTicketsCall
  \/ UpdateTicketStatusCall
  \/ AssignTicketCall
  \/ AutoCloseResolvedTicketsCall

TicketSpec == TicketInit /\ [][TicketNext]_vars

\* Priorities are computed for one text after another.
PriorityNext == DeterminePriorityCall

PrioritySpec == Init /\ [][PriorityNext]_vars

\* Ticket messages are parsed one after another.
ExtractNext == ExtractTicketInfoCall

ExtractSpec == Init /\ [][ExtractNext]_vars

\* Messages are scanned for a ticket request one after another.
TicketIntentNext == AnalyzeTicketIntentCall

TicketIntentSpec == Init /\ [][TicketIntentNext]_vars

\* ------------------------------------------------------------------ properties

\* The conversations of a user, and what the calls' positions mean.
ConversationsOf(userId) == {i \in DOMAIN conversations : conversations[i].userId = userId}
Finished(p) == pc[p] = "done"
Answering(p) == pc[p] \in {"sendResponse", "setSession", "done"} \/ (pc[p] = "catch" /\ thrown[p] \in {"sendResponse", "setSession"})
TextOf(p) == payload[p].content.text
IndexIn(seq, name) == CHOOSE i \in 1..Len(seq) : seq[i] = name
TimesIn(seq, name) == Cardinality({i \in 1..Len(seq) : seq[i] = name})

\* C1: when the calls for a user run one at a time, with any time between
\* them, the user never has more than one ACTIVE conversation.
C1_AtMostOneActive == \A ph \in Phones : Cardinality(ActiveConversations(ph)) <= 1

\* A user whose stale conversation was closed and replaced: two rows, one ACTIVE.
C1_Witness == \E ph \in Phones : Finished(1) /\ calls = 2 /\ Cardinality(ConversationsOf(ph)) = 2 /\ Cardinality(ActiveConversations(ph)) = 1

\* C2: the create step of getOrCreateConversation adds an ACTIVE row for the
\* caller's user whatever rows the table holds by then, also one that another
\* call added after this call's findFirst.
C2_CreateIsUnguarded ==
  [][\A p \in Slots : (pc[p] = "conversation_create" /\ pc'[p] = "message_create")
        => Cardinality({i \in DOMAIN conversations' : conversations'[i].userId = user[p].phoneNumber /\ conversations'[i].status = "ACTIVE"})
           = Cardinality(ActiveConversations(user[p].phoneNumber)) + 1]_vars

\* Two calls of one user ran findFirst before either ran create: the user has
\* two ACTIVE rows.
C2_Witness == \E ph \in Phones : Cardinality(ActiveConversations(ph)) = 2 /\ conversation[1] # conversation[2] /\ conversation[1] \in ActiveConversations(ph) /\ conversation[2] \in ActiveConversations(ph)

\* C3: an ACTIVE conversation whose age, from startedAt, is strictly greater
\* than maxConversationDuration is set to ENDED with its endedAt before the
\* new ACTIVE one is created; one whose age is at most the maximum is returned
\* as it is and nothing is created.
C3_StaleIsEndedBeforeCreate ==
  [][\A p \in Slots :
       /\ (pc[p] = "conversation_findFirst" /\ pc'[p] \notin {"conversation_findFirst", "catch"} /\ ActiveConversations(user[p].phoneNumber) # {})
            => \E id \in ActiveConversations(user[p].phoneNumber) :
                 IF now - conversations[id].startedAt > MaxConversationDuration * MsPerSecond
                 THEN pc'[p] = "conversation_update" /\ closing'[p].id = id /\ conversations' = conversations
                 ELSE pc'[p] = "message_create" /\ conversation'[p] = id /\ conversations' = conversations
       /\ (pc[p] = "conversation_update" /\ pc'[p] = "conversation_create")
            => /\ conversations'[closing[p].id].status = "ENDED"
               /\ conversations'[closing[p].id].endedAt # NoTime
               /\ Len(conversations') = Len(conversations)
       /\ (pc[p] = "conversation_create" /\ pc'[p] = "message_create" /\ closing[p].id # NoId)
            => /\ conversations[closing[p].id].status = "ENDED"
               /\ conversations[closing[p].id].endedAt # NoTime
               /\ conversations'[conversation'[p]].status = "ACTIVE"
               /\ conversation'[p] # closing[p].id]_vars

\* A stale conversation was ended, with its end time, and replaced.
C3_Witness == \E i, j \in DOMAIN conversations : /\ Finished(1)
                                                 /\ conversations[i].status = "ENDED"
                                                 /\ conversations[i].endedAt - conversations[i].startedAt > MaxConversationDuration * MsPerSecond
                                                 /\ conversations[j].userId = conversations[i].userId
                                                 /\ conversations[j].status = "ACTIVE"
                                                 /\ conversations[j].startedAt = conversations[i].endedAt

\* C4: after a text message classified as goodbye, with a confidence at or
\* above the threshold, has been processed, the user's Conversation row has
\* status ENDED and an end timestamp.
C4_GoodbyeEndsConversation ==
  \A p \in Slots : (Finished(p) /\ thrown[p] = Null /\ payload[p].messageType = "text" /\ TimesIn(trail[p], "handleIntent") = 1
                    /\ nlpResult[p].intent = "goodbye" /\ nlpResult[p].confidence >= ConfidenceThreshold)
                   => conversations[conversation[p]].status = "ENDED" /\ conversations[conversation[p]].endedAt # NoTime

\* C5: the promise of processIncomingMessage never rejects, whichever
\* collaborator fails, the send of the error message included.
C5_NeverRejects == \A p \in Slots : outcome[p] # "rejected" /\ (Finished(p) => outcome[p] = "resolved")

\* A call whose step threw and whose error message could not be sent either.
C5_Witness == Finished(1) /\ thrown[1] # Null /\ sends[1] # << >> /\ ~sends[1][Len(sends[1])].delivered /\ outcome[1] = "resolved"

\* C6: when a step of processIncomingMessage throws, the generic error text is
\* sent to messageData.from in exactly one attempt, whose failure is swallowed;
\* when no step throws, it is not sent.
ErrorText == [type |-> "text", content |-> [key |-> "error.general", language |-> "fr", text |-> Null], ids |-> << >>]
ErrorSends(p) == {i \in 1..Len(sends[p]) : sends[p][i].message = ErrorText}
C6_OneErrorSend ==
  \A p \in Slots : Finished(p)
     => IF thrown[p] # Null
        THEN /\ Cardinality(ErrorSends(p)) = 1
             /\ ErrorSends(p) = {Len(sends[p])}
             /\ sends[p][Len(sends[p])].to = messageData[p].from
             /\ outcome[p] = "resolved"
        ELSE ErrorSends(p) = {}

\* The response could not be sent, and neither could the error message.
C6_Witness == Finished(1) /\ thrown[1] = "sendResponse" /\ Len(sends[1]) = 2 /\ ~sends[1][2].delivered /\ sends[1][2].message = ErrorText

\* C7 as written: every call ends with the user's session in the store, its
\* lastActivity that of the call, also when the handler or the send failed.
C7_SessionAlwaysWritten ==
  \A p \in Slots : (Finished(p) /\ thrown[p] \in {Null, "handler", "sendResponse"})
     => /\ sessions[user[p].phoneNumber].expiresAt = now + SessionTTL * MsPerSecond
        /\ sessions[user[p].phoneNumber].data.lastActivity = now

\* C7 amended: the session is written, with lastActivity the time of the call
\* and the TTL of the store, by the calls none of whose steps threw, and by no
\* other: a call that reaches the catch block leaves the store as it was.
C7_SessionWrittenUnlessThrown ==
  [][\A p \in Slots :
       /\ (pc[p] # "done" /\ pc'[p] = "done") => pc[p] \in {"setSession", "catch"}
       /\ (pc[p] = "setSession" /\ pc'[p] = "done")
            => /\ thrown'[p] = Null
               /\ sessions'[user[p].phoneNumber].data = [session[p] EXCEPT !.lastActivity = now]
               /\ sessions'[user[p].phoneNumber].expiresAt = now + SessionTTL * MsPerSecond
       /\ (pc[p] = "setSession" /\ pc'[p] = "catch") => thrown'[p] # Null /\ sessions' = sessions
       /\ (pc[p] = "catch" /\ pc'[p] = "done") => thrown'[p] # Null /\ sessions' = sessions
       /\ (pc[p] \notin {"setSession"} \/ pc'[p] # "done") => (pc'[p] # pc[p] => sessions' = sessions)]_vars

\* A call whose handler or response send failed ends with no session stored.
C7_Witness == Finished(1) /\ thrown[1] \in {"handler", "sendResponse"} /\ sessions[user[1].phoneNumber].expiresAt = NoTime

\* C8: for a text that contains a handoff keyword, analyzeIntent is not
\* invoked, the response is the handoff-initiated text, and the session the
\* call stores has context.pendingHandoff = true.
HasHandoffKeyword(t) == \E k \in {"agent", "humain", "personne", "help", "aide"} : Includes(ToLowerCase(t), k)
C9_FirstGreeting ==
  \A p \in Slots : (calls = 1 /\ Finished(p) /\ thrown[p] = Null /\ payload[p].messageType = "text"
                    /\ TimesIn(trail[p], "handleIntent") = 1
                    /\ nlpResult[p].intent = "greeting" /\ nlpResult[p].confidence >= ConfidenceThreshold)
     => /\ {ph \in Phones : users[ph] # NoUser} = {messageData[p].from}
        /\ users[messageData[p].from] = [phoneNumber |-> messageData[p].from, name |-> messageData[p].contact.name, language |-> "fr"]
        /\ Len(conversations) = 1
        /\ conversations[1].userId = messageData[p].from
        /\ conversations[1].status = "ACTIVE"
        /\ Len(sends[p]) = 1
        /\ sends[p][1].to = messageData[p].from
        /\ sends[p][1].message.type = "interactive"
        /\ sends[p][1].message.ids = <<"help", "faq", "contact_agent">>

\* A first "Bonjour", classified as greeting, was answered.
C9_Witness == calls = 1 /\ Finished(1) /\ thrown[1] = Null /\ TextOf(1) = "Bonjour" /\ nlpResult[1].intent = "greeting" /\ nlpResult[1].confidence >= ConfidenceThreshold /\ Len(sends[1]) = 1

\* C10: in the text handler, a classification below the intent threshold is
\* not dispatched by intent; the knowledge base is searched first and its
\* answer is returned as it is exactly when its confidence is strictly greater
\* than the knowledge-base threshold; otherwise one generation call is made,
\* and the fallback menu is returned only when that gave no answer.
KbAnswered(p) == kbResult[p].found /\ kbResult[p].confidence > 40
AiAnswered(p) == aiResponse[p] # Null /\ Len(aiResponse[p]) > 10
IntentCalls == {i \in 1..Len(log) : log[i].op = "analyzeIntent"}
SameIntentInput(i, j) == log[i].text = log[j].text /\ log[i].language = log[j].language
WithinNlpTTL(i, j) == i < j /\ log[j].at - log[i].at < NlpCacheTTL * MsPerSecond
LogIsComplete == calls = Len(log)

\* C11 as stated: of two analyzeIntent calls with the same (text, language)
\* within the cache TTL, the first of which returned, the two together invoke
\* the hosted model at most once and the second returns the first's result,
\* whatever the first call ended in (the second call's cache read succeeding).
C11_SecondCallIsCached ==
  \A i, j \in IntentCalls :
    (SameIntentInput(i, j) /\ WithinNlpTTL(i, j) /\ ~log[i].thrown /\ ~log[j].readFailed)
    => /\ log[i].modelCalls + log[j].modelCalls <= 1
       /\ ~log[j].thrown
       /\ log[j].result = log[i].result

\* C11, amended: analyzeIntent writes the cache only with a normalized model
\* answer, never with a keyword-fallback result.  A call whose cache read
\* succeeds within the TTL of the latest such write for the same (text,
\* language) returns that written result unchanged and does not invoke the
\* hosted model; every other call invokes the hosted model once.
C11_ModelResultIsCached ==
  \A j \in IntentCalls :
    /\ log[j].hit <=> log[j].modelCalls = 0
    /\ ~log[j].hit => log[j].modelCalls = 1
    /\ log[j].stored => ~log[j].hit /\ ~log[j].thrown /\ ~log[j].result.fallback
    /\ (log[j].hit /\ LogIsComplete) => \E i \in IntentCalls : SameIntentInput(i, j) /\ WithinNlpTTL(i, j) /\ log[i].stored
    /\ \A i \in IntentCalls :
         (/\ SameIntentInput(i, j) /\ WithinNlpTTL(i, j) /\ log[i].stored /\ ~log[j].readFailed
          /\ \A k \in IntentCalls : (i < k /\ k < j /\ SameIntentInput(i, k)) => ~log[k].stored)
         => log[j].hit /\ ~log[j].thrown /\ log[j].result = log[i].result

\* Two calls with the same input 1799 seconds apart: the first cached the
\* model's answer, the second returned it from the cache.
C11_Witness ==
  /\ Len(log) = 2 /\ IntentCalls = {1, 2}
  /\ SameIntentInput(1, 2) /\ WithinNlpTTL(1, 2) /\ log[2].at > log[1].at
  /\ log[1].stored /\ log[1].modelCalls = 1
  /\ log[2].hit /\ log[2].modelCalls = 0 /\ log[2].result = log[1].result

\* C12 as stated: analyzeIntent never throws; every failure of the hosted
\* model call, quota and rate-limit errors included, ends in the keyword
\* fallback result.
C12_AnalyzeIntentNeverThrows ==
  \A i \in IntentCalls : ~log[i].thrown /\ (log[i].modelCalls = 1 /\ log[i].answer = NoAnswer => log[i].result.fallback)

\* C13: every result analyzeIntent returns on a cache miss has an intent of
\* the fixed set (the 14 supported intents and unknown) and a confidence in
\* [0,1]; a model intent outside the set becomes unknown, a confidence that
\* is missing or not a number becomes 0; a fallback result has confidence
\* 0.6 with a matched intent or 0.1 with unknown.
C13_ResultIsNormalized ==
  \A i \in IntentCalls :
    (~log[i].hit /\ ~log[i].thrown)
    => /\ log[i].result.intent \in SupportedIntents \cup {"unknown"}
       /\ log[i].result.confidence \in 0..100
       /\ ~log[i].result.fallback =>
            /\ log[i].answer # NoAnswer
            /\ log[i].result.intent = (IF log[i].answer[1] \in SupportedIntents THEN log[i].answer[1] ELSE "unknown")
            /\ log[i].answer[2] = NotANumber => log[i].result.confidence = 0
            /\ log[i].answer[2] \in 0..100 => log[i].result.confidence = log[i].answer[2]
            /\ (log[i].answer[2] # NotANumber /\ log[i].answer[2] > 100) => log[i].result.confidence = 100
            /\ (log[i].answer[2] # NotANumber /\ log[i].answer[2] < 0) => log[i].result.confidence = 0
       /\ log[i].result.fallback =>
            \/ log[i].result.intent = "unknown" /\ log[i].result.confidence = UnknownConfidence
            \/ log[i].result.intent # "unknown" /\ log[i].result.confidence = FallbackConfidence

\* The model answered an intent outside the set with a confidence that is not
\* a number, and then an in-set intent with a confidence above 1.
C13_Witness ==
  /\ Len(log) = 2 /\ IntentCalls = {1, 2}
  /\ ~log[1].hit /\ ~log[1].result.fallback /\ log[1].answer = <<"small_talk", NotANumber>>
  /\ log[1].result.intent = "unknown" /\ log[1].result.confidence = 0
  /\ ~log[2].hit /\ ~log[2].result.fallback /\ log[2].answer = <<"goodbye", 150>>
  /\ log[2].result.confidence = 100

\* The search calls the log holds, and the active entries of a language.
SearchCalls == {i \in DOMAIN log : log[i].op = "search"}
ActiveEntries(language) == {i \in DOMAIN knowledgeBase : knowledgeBase[i].language = language /\ knowledgeBase[i].isActive}
BlankQuery(query) == ~Truthy(query) \/ Trim(query) = ""

\* C14, as stated: search never throws, and returns null when the store has
\* no active entry for the language, when the query is empty or blank, and
\* whenever the database, the cache or the hosted model failed during the
\* call.
C14_NullOnEveryFailure ==
  \A i \in SearchCalls :
    /\ ~log[i].thrown
    /\ (ActiveEntries(log[i].language) = {} \/ BlankQuery(log[i].query) \/ log[i].failed # {}) => ~log[i].result.found

\* C14, amended: search never throws.  It returns null when the store has
\* no active entry for the language, when the query is empty or blank, and
\* when a failure reaches its catch block (initialize, the cache write).  A
\* result it returns is the first of the list it ranked, an active entry of
\* the language.
C14_SearchNeverThrows ==
  \A i \in SearchCalls :
    /\ ~log[i].thrown
    /\ (ActiveEntries(log[i].language) = {} \/ BlankQuery(log[i].query) \/ log[i].caught) => ~log[i].result.found
    /\ log[i].result.found => /\ log[i].ranked # << >>
                              /\ log[i].result.answer = log[i].ranked[1].answer
                              /\ log[i].ranked[1].id \in ActiveEntries(log[i].language)

\* A search in a language without active entries answered null with nothing
\* failing, and a search whose cache write failed answered null.
C14_Witness ==
  \E i, j \in SearchCalls :
    /\ ActiveEntries(log[i].language) = {} /\ ~BlankQuery(log[i].query) /\ log[i].failed = {} /\ ~log[i].caught
    /\ ~log[i].result.found /\ ~log[i].thrown
    /\ log[j].caught /\ "cache" \in log[j].failed /\ ~log[j].result.found /\ ~log[j].thrown

\* The call in slot p answered its user with the knowledge-base entry its
\* search returned.
AnsweredFromKnowledgeBase(p) ==
  /\ Finished(p) /\ thrown[p] = Null
  /\ kbResult[p].found
  /\ response[p] = [type |-> "text", content |-> [key |-> "verbatim", language |-> Null, text |-> kbResult[p].answer], ids |-> << >>]

\* C15, as stated: when a call has answered its user with a knowledge-base
\* entry, from the low-confidence path of the text handler or from the FAQ
\* handler, the usage counter of that entry has been incremented.
C15_UsageIsCounted ==
  \A p \in Slots : AnsweredFromKnowledgeBase(p)
     => \E i \in DOMAIN knowledgeBase : /\ knowledgeBase[i].answer = kbResult[p].answer
                                        /\ knowledgeBase[i].usageCount > SeededEntries[i].usageCount

\* The latest call of the log and the one before it; a call that returned.
Latest(l) == l[Len(l)]
Previous(l) == l[Len(l) - 1]
Returned(entry) == entry.thrown = Null

\* C16: a call of updateTicketStatus with a status outside OPEN,
\* IN_PROGRESS, WAITING_CUSTOMER, RESOLVED and CLOSED throws a
\* ValidationError and changes no Ticket row and no cache entry.
C16_InvalidStatusIsRejected ==
  [][(calls' = calls + 1 /\ Latest(log').op = "updateTicketStatus"
      /\ Latest(log').newStatus \notin {"OPEN", "IN_PROGRESS", "WAITING_CUSTOMER", "RESOLVED", "CLOSED"})
     => (Latest(log').thrown = "ValidationError" /\ tickets' = tickets /\ cache' = cache)]_vars

\* updateTicketStatus was called with "FOO" for a ticket whose copy and
\* whose owner's list are in the cache, and threw a ValidationError.
C16_Witness ==
  /\ log # << >>
  /\ Latest(log).op = "updateTicketStatus" /\ Latest(log).newStatus = "FOO" /\ Latest(log).thrown = "ValidationError"
  /\ Latest(log).ticketId \in DOMAIN tickets
  /\ TicketKey(Latest(log).ticketId) \in DOMAIN cache
  /\ \E filter \in ListFilters : UserTicketsListKey(tickets[Latest(log).ticketId].userId, filter[1], filter[2], 0) \in DOMAIN cache

\* The user whose ticket a returned createTicket, updateTicketStatus or
\* assignTicket call changed (Null for any other call).
MutatedUser(entry) ==
  IF ~Returned(entry) THEN Null
  ELSE IF entry.op = "createTicket" THEN entry.userId
  ELSE IF entry.op \in {"updateTicketStatus", "assignTicket"} THEN tickets[entry.ticketId].userId
  ELSE Null

\* C17, as stated: a getUserTickets call for user u that returns right after
\* createTicket, updateTicketStatus or assignTicket returned for a ticket of
\* u gives the rows the database holds for its filter and page, not a list
\* cached before the mutation.
C17_ListReflectsMutation ==
  (Len(log) >= 2 /\ Latest(log).op = "getUserTickets" /\ Returned(Latest(log))
   /\ MutatedUser(Previous(log)) = Latest(log).userId)
  => Latest(log).result = FindUserTickets(tickets, Latest(log).userId, Latest(log).status, Latest(log).limit, Latest(log).offset)

\* The tickets whose status a returned updateTicketStatus, assignTicket or
\* autoCloseResolvedTickets call changed.
StatusChanged(entry) ==
  IF ~Returned(entry) THEN {}
  ELSE IF entry.op \in {"updateTicketStatus", "assignTicket"} THEN {entry.ticketId}
  ELSE IF entry.op = "autoCloseResolvedTickets" THEN entry.closed
  ELSE {}

\* C18, as stated: a getTicketById call that returns right after
\* updateTicketStatus, assignTicket or autoCloseResolvedTickets changed the
\* ticket's status gives the status the row has now.
C18_StatusReflectsMutation ==
  (Len(log) >= 2 /\ Latest(log).op = "getTicketById" /\ Returned(Latest(log))
   /\ Latest(log).ticketId \in StatusChanged(Previous(log)))
  => Latest(log).result.status = tickets[Latest(log).ticketId].status

\* C19, as stated: a getTicketById call with a user filter that returns
\* gives a ticket of that user, whatever calls were made before.
C19_OwnerOnly ==
  (log # << >> /\ Latest(log).op = "getTicketById" /\ Returned(Latest(log)) /\ Latest(log).userId # Null)
  => Latest(log).result.userId = Latest(log).userId

\* The determinePriority calls of the log, and whether a lower-cased text
\* contains one of a language's keywords.
PriorityCalls == {i \in DOMAIN log : log[i].op = "determinePriority"}
ContainsAny(text, words) == \E k \in 1..Len(words) : Includes(ToLowerCase(text), words[k])

\* C20: determinePriority gives URGENT exactly when the lower-cased text
\* contains an urgent keyword of the language, HIGH exactly when it contains
\* no urgent keyword but a high-priority one, NORMAL otherwise; never LOW.
C20_UrgentBeforeHigh ==
  \A i \in PriorityCalls :
    LET urgent == ContainsAny(log[i].text, UrgentKeywords[log[i].language])
        high == ContainsAny(log[i].text, HighPriorityKeywords[log[i].language])
    IN /\ log[i].priority = "URGENT" <=> urgent
       /\ log[i].priority = "HIGH" <=> (~urgent /\ high)
       /\ log[i].priority = "NORMAL" <=> (~urgent /\ ~high)
       /\ log[i].priority # "LOW"

\* A text with an urgent and a high-priority keyword was rated URGENT, and a
\* text with keywords of the other language only was rated NORMAL.
C20_Witness ==
  \E i, j \in PriorityCalls :
    /\ log[i].text = "vite panne" /\ log[i].language = "fr" /\ log[i].priority = "URGENT"
    /\ log[j].text = "broken fast" /\ log[j].language = "fr" /\ log[j].priority = "NORMAL"

\* The extractTicketInfo calls of the log, the text of a call once cleaned
\* and once its trigger keywords are removed, and whether a logged title and
\* description are those that splitting a content gives.
ExtractCalls == {i \in DOMAIN log : log[i].op = "extractTicketInfo"}
Cleaned(entry) == CleanText(entry.text)
Remaining(entry) == StripKeywords(Cleaned(entry), TicketKeywords[entry.language])
SplitsAs(entry, content) ==
  LET parts == TrimmedParts(content)
      first8 == Join(Slice(SplitAt(content, {" "}), 8))
  IN IF (Includes(content, ":") \/ Includes(content, "-") \/ Includes(content, "\n")) /\ Len(parts) >= 2
     THEN /\ entry.description = Join(Tail(parts))
          /\ Len(entry.title) <= 100
          /\ IF Len(parts[1]) <= 100 THEN entry.title = parts[1]
             ELSE entry.title = SubSeq(parts[1], 1, 97) \o "..."
     ELSE /\ entry.description = content
          /\ Len(entry.title) <= 50
          /\ IF content = "" THEN entry.title = GenericTitle(entry.language)
             ELSE IF Len(first8) <= 50 THEN entry.title = first8
             ELSE entry.title = SubSeq(first8, 1, 47) \o "..."

ReplyId(pl) == IF Truthy(pl.content.buttonId) THEN pl.content.buttonId ELSE pl.content.listId
ReplyTitle(pl) == IF Truthy(pl.content.buttonId) THEN pl.content.buttonTitle ELSE pl.content.listTitle
UnrecognizedReply(pl) == pl.messageType = "interactive" /\ pl.content.defined /\ Truthy(ReplyId(pl)) /\ ReplyId(pl) \notin RecognizedIds

\* C22: a button or list reply whose id is not recognized is answered, and
\* changes the session, as processTextMessage would on its display title:
\* language detection, the handoff keywords, then the classifier.
C22_UnknownIdHandledAsText ==
  [][\A p \in Slots :
       (pc[p] = "dispatch" /\ pc'[p] # "dispatch" /\ UnrecognizedReply(payload'[p]))
         => \E o \in ProcessTextMessage(Work(user[p], session[p], now, Cardinality(TicketsOf(tickets, user[p].phoneNumber))), ReplyTitle(payload'[p])) :
              /\ o.response = response'[p]
              /\ o.work.session = session'[p]
              /\ o.thrown = (thrown'[p] = "handler")]_vars

\* The step of a call in which processTextMessage switched the language.
SwitchedLanguage(p) == pc[p] = "dispatch" /\ pc'[p] # "dispatch" /\ user'[p].language # user[p].language

\* C23: when the detected language differs from the stored one, from the
\* switch on the User record, the call's session and the rendered response
\* all have the detected language.
C23_SwitchReachesRowSessionResponse ==
  [][\A p \in Slots :
       SwitchedLanguage(p)
         => /\ users'[user[p].phoneNumber].language = user'[p].language
            /\ session'[p].language = user'[p].language
            /\ response'[p].content.language \in {Null, user'[p].language}]_vars

\* The handling of a message is over: processIncomingMessage settled, or
\* markMessageAsRead rejected.
Completed == {"processed", "failed"}
Acknowledged == webhook.status = 200
ChangesOfMessages == {c \in 1..Len(webhook.tasks) : webhook.body.changes[c].field = "messages"}

\* C24: a POST /webhook with a whatsapp_business_account body is answered
\* with 200 before the handling of any of its messages is over, and it is
\* answered with 200 whatever became of the promises.
C24_AcknowledgedBeforeCompletion ==
  /\ \A c \in 1..Len(webhook.tasks) : \A m \in 1..Len(webhook.tasks[c].messages) :
       webhook.tasks[c].messages[m] \in Completed => Acknowledged
  /\ (HandlerReturned /\ webhook.body.object = "whatsapp_business_account") => Acknowledged

\* A delivery answered with 200, one of whose changes failed while another
\* was processed.
C24_Witness ==
  /\ HandlerReturned /\ Acknowledged
  /\ \E c, d \in 1..Len(webhook.tasks) : /\ webhook.tasks[c].promise = "rejected"
                                          /\ webhook.tasks[d].promise = "fulfilled"
                                          /\ \E m \in 1..Len(webhook.tasks[d].messages) : webhook.tasks[d].messages[m] = "processed"

\* C25: once a delivery is dealt with, each of its messages was handled (or
\* is the one that failed) and each of its status updates was processed,
\* whichever message failed.
C25_FailureIsIsolated ==
  HandlerReturned =>
    \A c \in ChangesOfMessages :
      /\ \A m \in 1..Len(webhook.tasks[c].messages) : webhook.tasks[c].messages[m] \in Completed
      /\ \A st \in 1..Len(webhook.tasks[c].statuses) : webhook.tasks[c].statuses[st] = "processed"

\* The call's handler returned and its response, if any, was sent.
DispatchedAndSent(p) == pc[p] \in {"setSession", "done"} /\ thrown[p] \notin {"handler", "sendResponse"}

\* C26: the Message row of a call has processed = true only once the call's
\* handler dispatch and response send are over without an error; while they
\* run, and when one of them fails, the row has processed = false.
C26_ProcessedOnlyAfterPipeline ==
  \A p \in Slots : (savedMessage[p] # NoId /\ messages[savedMessage[p]].processed) => DispatchedAndSent(p)

\* C27: the session a call writes to the store has the id of the
\* conversation the call resolved for its message, also when the session came
\* from the store and the conversation was replaced as stale.
C27_SessionNamesResolvedConversation ==
  [][\A p \in Slots :
       (pc[p] = "setSession" /\ pc'[p] = "done")
         => sessions'[user[p].phoneNumber].data.conversationId = conversation[p]]_vars

\* The Message rows that carry a provider message id.
RowsOf(messageId) == {i \in DOMAIN messages : messages[i].whatsappMessageId = messageId}
Responded(p) == Len(sends[p]) = 1 /\ sends[p][1].delivered /\ sends[p][1].message = response[p]

\* C28: nothing is deduplicated on the provider message id: when the same
\* inbound event was handed to processIncomingMessage twice and both calls
\* ran to the end, each call has its own Message row with the event's id and
\* each call sent its response.
C28_SameEventTwiceIsProcessedTwice ==
  (Finished(1) /\ Finished(2) /\ messageData[1] = messageData[2] /\ thrown[1] = Null /\ thrown[2] = Null)
    => /\ savedMessage[1] # savedMessage[2]
       /\ {savedMessage[1], savedMessage[2]} \subseteq RowsOf(messageData[1].messageId)
       /\ Responded(1) /\ Responded(2)

\* The second call started after the first had ended, with the same event.
C28_Witness ==
  /\ Finished(1) /\ Finished(2) /\ messageData[1] = messageData[2] /\ thrown[1] = Null /\ thrown[2] = Null
  /\ conversation[1] = conversation[2]
  /\ Cardinality(RowsOf(messageData[1].messageId)) = 2
  /\ Responded(1) /\ Responded(2)

\* The messages with which the ticket handlers answer an error themselves.
TicketErrorKeys == {"ticket.creation_error", "ticket.status_error"}

\* C29: an error of the Ticket Store in handleCreateTicket or
\* handleCheckTicketStatus leaves the handler as a throw, which the catch
\* block of processIncomingMessage answers with error.general: no call has a
\* handler's own error message as its response.
C29_TicketErrorsReachTopLevelCatch ==
  \A p \in Slots : (\E i \in 1..Len(trail[p]) : trail[p][i] \in {"createTicket", "getUserTickets"})
                      => response[p].content.key \notin TicketErrorKeys

\* The call ran to the end and stored its session.
Persisted(p) == Finished(p) /\ thrown[p] = Null

\* C30: the session write of a call replaces whatever the store holds with
\* the call's own session object, so that of two calls of one user the later
\* write wins and a pending handoff the other call stored can be lost.
C30_LastSessionWriteWins ==
  [][\A p \in Slots :
       (pc[p] = "setSession" /\ pc'[p] = "done")
         => sessions'[user[p].phoneNumber].data = Touched(session[p], now)]_vars

\* Both calls are over; one stored pendingHandoff = true, and the session in
\* the store is the other call's, without it.
C30_Witness ==
  \E p, q \in Slots :
    /\ p # q /\ Persisted(p) /\ Persisted(q)
    /\ user[p].phoneNumber = user[q].phoneNumber
    /\ session[p].context.pendingHandoff
    /\ sessions[user[p].phoneNumber].data = session[q]
    /\ ~sessions[user[p].phoneNumber].data.context.pendingHandoff

TicketIntentCalls == {i \in 1..Len(log) : log[i].op = "analyzeTicketIntent"}
HasStatusPhrase(text, language) == SomeIncluded(ToLowerCase(text), KeywordsFor(StatusKeywords, language))
HasCreationKeyword(text, language) == SomeIncluded(ToLowerCase(text), KeywordsFor(CreationKeywords, language))

\* C31: analyzeTicketIntent answers check_ticket_status (0.8) for a text with
\* a status phrase of the language, create_ticket (0.8) for a text with a
\* creation keyword and no status phrase, and null for any other text.
C31_StatusPhraseFirst ==
  \A i \in TicketIntentCalls :
    LET call == log[i]
    IN IF HasStatusPhrase(call.text, call.language) THEN call.intent = "check_ticket_status" /\ call.confidence = TicketIntentConfidence
       ELSE IF HasCreationKeyword(call.text, call.language) THEN call.intent = "create_ticket" /\ call.confidence = TicketIntentConfidence
       ELSE call.intent = Null

LanguageCalls == {i \in 1..Len(log) : log[i].op = "detectLanguage"}

\* C32: of two detectLanguage calls on the same text within the cache TTL, the
\* first of which wrote its outcome to the cache (a supported language or
\* null) and the second of which read the cache, the two together invoke the
\* hosted model at most once.
C32_EitherOutcomeIsCached ==
  \A i, j \in LanguageCalls :
    (log[i].text = log[j].text /\ WithinNlpTTL(i, j) /\ log[i].stored /\ ~log[j].readFailed)
    => log[i].modelCalls + log[j].modelCalls <= 1

\* C33: the language of every User row, and of every call's user object, is
\* the default language or a supported language: a detection that is null or
\* not supported leaves it as it was.
C33_LanguageIsSupported ==
  /\ \A ph \in Phones : users[ph] # NoUser => users[ph].language \in {DefaultLanguage} \cup SupportedLanguages
  /\ \A p \in Slots : user[p] # NoUser => user[p].language \in {DefaultLanguage} \cup SupportedLanguages

\* A user created with the default language was switched to the other
\* supported language by a text message.
C33_Witness ==
  \E p \in Slots : /\ Finished(p) /\ payload[p].messageType = "text" /\ IndexIn(trail[p], "detectLanguage") = 1
                    /\ users[user[p].phoneNumber].language \in SupportedLanguages \ {DefaultLanguage}

\* The call's handler asked generateAIResponse, and the response is its text.
AskedAI(p) == Answering(p) /\ TimesIn(trail[p], "generateAIResponse") > 0
AnsweredByAI(p) == response[p].type = "text" /\ response[p].content.key = "verbatim"

MessageSaved(p) == savedMessage[p] \in DOMAIN messages
Resolved(p) == /\ pc[p] \notin {"idle", "user_findUnique", "user_create", "user_update", "conversation_findFirst", "conversation_update", "conversation_create"}
               /\ thrown[p] \notin {"getOrCreateUser", "getOrCreateConversation"}
AfterSave(p) == pc[p] \in {"getSession", "dispatch", "sendResponse", "setSession"} \/ thrown[p] \in {"handler", "sendResponse", "setSession"}

\* C35 as stated: the Message row is inserted before the handler is
\* dispatched and before anything is sent, and an event whose user and
\* conversation were resolved has its Message row.
C35_SavedBeforeAnySend ==
  \A p \in Slots :
    /\ AfterSave(p) => MessageSaved(p)
    /\ sends[p] # << >> => MessageSaved(p)
    /\ (Finished(p) /\ Resolved(p)) => MessageSaved(p)

\* C35, amended: the Message row, with the event's id and the resolved
\* conversation, is inserted before the session is read, the handler is
\* dispatched and the response is sent, and it stays when one of these
\* fails.  A call without its row is one whose getOrCreateUser,
\* getOrCreateConversation or message.create failed: it sent nothing but the
\* error message of the catch block.
C35_SavedBeforeDispatchAndResponse ==
  \A p \in Slots :
    /\ AfterSave(p) => /\ MessageSaved(p)
                       /\ messages[savedMessage[p]].whatsappMessageId = messageData[p].messageId
                       /\ messages[savedMessage[p]].conversationId = conversation[p]
    /\ (pc[p] # "idle" /\ ~MessageSaved(p))
         => /\ thrown[p] \in {Null, "getOrCreateUser", "getOrCreateConversation", "saveMessage"}
            /\ response[p] = NoResponse
            /\ \A i \in 1..Len(sends[p]) : sends[p][i].message = ErrorText
    /\ (Finished(p) /\ Resolved(p) /\ ~MessageSaved(p)) => thrown[p] = "saveMessage"

\* The handler threw after the row was inserted: the row is there and the
\* error message was sent.
C35_Witness ==
  /\ Finished(1) /\ thrown[1] = "handler" /\ MessageSaved(1)
  /\ messages[savedMessage[1]].conversationId = conversation[1]
  /\ Len(sends[1]) = 1

\* The rows a step changed.
ChangedTickets == {i \in DOMAIN tickets : tickets'[i] # tickets[i]}

\* C36: a call of autoCloseResolvedTickets changes the tickets that are
\* RESOLVED with resolvedAt more than seven days before the call, all of
\* them or, when the update fails, none: each gets status CLOSED and a new
\* updatedAt and keeps its other fields, resolvedAt included; no row is added
\* or removed, and the call returns the number of rows it changed.
C36_AutoCloseFrame ==
  [][(calls' = calls + 1 /\ Latest(log').op = "autoCloseResolvedTickets")
     => LET call == Latest(log')
            due == {i \in DOMAIN tickets : tickets[i].status = "RESOLVED" /\ tickets[i].resolvedAt # NoTime
                                           /\ call.at - tickets[i].resolvedAt > AutoCloseDelay}
        IN /\ DOMAIN tickets' = DOMAIN tickets
           /\ ChangedTickets \in {due, {}}
           /\ \A i \in ChangedTickets : tickets'[i] = [tickets[i] EXCEPT !.status = "CLOSED", !.updatedAt = call.at]
           /\ call.count = Cardinality(ChangedTickets)
           /\ call.thrown = Null]_vars

\* The sweep closed the ticket resolved more than seven days before and left
\* the other ticket as it was.
C36_Witness ==
  /\ log # << >> /\ Latest(log).op = "autoCloseResolvedTickets" /\ Latest(log).count = 1 /\ Latest(log).closed = {1}
  /\ tickets[1].status = "CLOSED" /\ tickets[1].resolvedAt = SeededTickets[1].resolvedAt /\ tickets[1].updatedAt = Latest(log).at
  /\ tickets[2] = SeededTickets[2]

\* The sends of a call that reached the user.
DeliveredSends(p) == {i \in 1..Len(sends[p]) : sends[p][i].delivered}

\* C37: a call of processIncomingMessage delivers at most one message to the
\* user, the handler's response or the generic error message and never both,
\* whichever step fails, the session write after a delivered response included.
C37_AtMostOneDelivered == \A p \in 1..calls : Cardinality(DeliveredSends(p)) <= 1

\* Message m of change c of the delivery.
Inbound(c, m) == c \in ChangesOfMessages /\ m \in 1..Len(webhook.tasks[c].messages)

\* C38: when every external call terminates, each inbound message of a
\* delivery is in the end passed to processIncomingMessage, the only place
\* that sends to its sender (the response, or the generic error message), and
\* that call settles: no message is left without a send attempt.
C38_EveryMessageIsAnswered ==
  \A c \in 1..MaxChanges, m \in 1..MaxMessages :
    Inbound(c, m) ~> (Inbound(c, m) /\ webhook.tasks[c].messages[m] = "processed")

\* The button and list-row ids of the messages a call sent.
EmittedIds(p) == {sends[p][i].message.ids[k] : <<i, k>> \in {x \in (1..Len(sends[p])) \X (1..4) : x[2] <= Len(sends[p][x[1]].message.ids)}}

\* C39: every button id and list-row id of a message the bot sends is the
\* label of a case of handleButtonClick.
C39_EmittedIdsHaveACase == \A p \in Slots : EmittedIds(p) \subseteq RecognizedIds

\* C40: after any sequence of createTicket, updateTicketStatus, assignTicket
\* and autoCloseResolvedTickets, a ticket has a resolvedAt exactly when its
\* status is RESOLVED or CLOSED.
C40_ResolvedAtIffResolved ==
  \A i \in DOMAIN tickets : (tickets[i].resolvedAt # NoTime) <=> (tickets[i].status \in {"RESOLVED", "CLOSED"})

====
